---- MODULE Spec2Model ----
(***************************************************************************)
(* Model of the mecha-vs-monsters battle simulator:                        *)
(*   mvm/core.py            entity model, signals, hooks, phase snapshots  *)
(*   mvm/sim_interface.py   BattleSimulator driver                         *)
(*   mvm/combatants.py, mvm/terrains.py, tests/test_core.py   hook bodies  *)
(*                                                                         *)
(* Specifications                                                          *)
(*   SpecDamage  Combatant.apply_damage / modify_damage on bounded inputs  *)
(*   Spec        one simulator, time-derived seed: every roll sequence     *)
(*   SpecFair    Spec plus weak fairness of the driver loop                *)
(*   SpecSeeded  configured seeds: a battle, then a second simulator       *)
(*               (same inputs, or rebuilt from the archived Start)         *)
(***************************************************************************)
EXTENDS Integers, Sequences, FiniteSets, TLC

VARIABLES
    sim,            \* BattleSimulator fields main_a, adds_a, main_b, adds_b, terrain, random_seed
    settings,       \* utils.settings.settings.mode: "PROD" or "DEBUG"
    current_state,  \* BattleSimulator.current_state, the live snapshot (type "None" when unset)
    rng,            \* the random.Random object shared along the snapshot lineage: [seed, pos]
    pc,             \* the driver call in progress: "idle" (none), "run_battle", "run_round"
    until,          \* run_round's argument while pc = "run_round"
    calls,          \* how many driver calls have been made
    outcome,        \* how the last driver call ended, [call, raised]; cleared when one begins
    clock,          \* time.time_ns() readings taken so far
    run,            \* SpecSeeded: 1 = first simulator, 2 = a second one with the same inputs,
                    \* 3 = one rebuilt from the archived Start
    prev,           \* SpecSeeded: the first simulator, [sim, state, outcome] when it finished
    archive_on,     \* whether saved_states is recorded (no transition reads saved_states;
                    \* Spec explores every roll sequence and leaves the archive out)
    fresh,          \* whether the driver call in progress (or the last one) began on a
                    \* battle no transition had been made in
    multi,          \* the run_multiple_battles call: [active, n, begun, combatant_a,
                    \* combatant_b, total_rounds, seeds]
    victim,         \* SpecDamage: the combatant apply_damage is called on
    last,           \* SpecDamage: the last apply_damage call (arguments, pools before, result)
    step            \* SpecPhase: the last transition made (the values drawn, the snapshot it
                    \* was called on, what it raised, how many values it drew)

vars == <<sim, settings, current_state, rng, pc, until, calls, outcome, clock, run, prev, archive_on,
          fresh, multi, victim, last, step>>
battleVars == <<sim, settings, current_state, rng, pc, until, calls, outcome, clock, run, prev,
                archive_on, fresh, multi, step>>
damageVars == <<victim, last, step>>

(***************************************************************************)
(* Bounds of the model                                                     *)
(***************************************************************************)
MaxPool == 3        \* SpecDamage: armor and shields are drawn from 0..MaxPool
MaxAmount == 4      \* SpecDamage: damage amounts are drawn from -NegAmount..MaxAmount
NegAmount == 1
ModMag == 2         \* SpecDamage: flat modifiers are drawn from {-ModMag, ModMag} or absent
MaxSeed == 3        \* SpecSeeded: configured seeds are drawn from 0..MaxSeed
MaxCalls == 2       \* the driver calls made on one simulator
MaxRounds == 5      \* the rounds explored of a battle between combatants with large pools
MaxBattles == 2     \* SpecMulti: num_battles is drawn from 1..MaxBattles

(***************************************************************************)
(* Program constants                                                       *)
(***************************************************************************)
RoundCeiling == 300
VelocityRollMin == 1
VelocityRollMax == 1000
HitRollMin == 0
HitRollMax == 1000
HitBase == 500

Max(a, b) == IF a >= b THEN a ELSE b
Min(a, b) == IF a <= b THEN a ELSE b

AttackTypes == {"Firepower", "Chemical", "Ballistics"}

(***************************************************************************)
(* Entity model: Combatant                                                 *)
(***************************************************************************)
\* A dict[AttackType, int] is a function whose domain is the set of keys present.
EmptyDict == <<>>

NewCombatant(name, armor, shields, ballistics, chemical, firepower, velocity) ==
    [name |-> name, armor |-> armor, shields |-> shields, ballistics |-> ballistics,
     chemical |-> chemical, firepower |-> firepower, velocity |-> velocity,
     effects |-> <<>>, armor_modifiers |-> EmptyDict, shield_modifiers |-> EmptyDict,
     attack_hit_chance_mod |-> EmptyDict, defense_hit_chance_mod |-> EmptyDict,
     original_armor |-> armor, original_shields |-> shields]

\* Mutant: the shielded and unshielded multipliers of Firepower are swapped.
modify_damage_swapped(c, damage, damage_type) ==
    LET scaled == IF damage_type = "Firepower"
                  THEN (IF c.shields > 0 THEN damage \div 2 ELSE damage * 2)
                  ELSE IF damage_type = "Chemical"
                  THEN (IF c.shields > 0 THEN damage \div 2 ELSE damage * 2)
                  ELSE damage
        flat == IF c.shields > 0 /\ damage_type \in DOMAIN c.shield_modifiers
                THEN c.shield_modifiers[damage_type]
                ELSE IF c.shields = 0 /\ damage_type \in DOMAIN c.armor_modifiers
                THEN c.armor_modifiers[damage_type]
                ELSE 0
    IN  Max(0, scaled + flat)

\* Combatant.modify_damage: Python's // is floor division, as \div is.
modify_damage(c, damage, damage_type) ==
    LET scaled == IF damage_type = "Firepower"
                  THEN (IF c.shields > 0 THEN damage * 2 ELSE damage \div 2)
                  ELSE IF damage_type = "Chemical"
                  THEN (IF c.shields > 0 THEN damage \div 2 ELSE damage * 2)
                  ELSE damage
        flat == IF c.shields > 0 /\ damage_type \in DOMAIN c.shield_modifiers
                THEN c.shield_modifiers[damage_type]
                ELSE IF c.shields = 0 /\ damage_type \in DOMAIN c.armor_modifiers
                THEN c.armor_modifiers[damage_type]
                ELSE 0
    IN  Max(0, scaled + flat)

\* Mutant: the pool is not floored at zero.
apply_damage_unfloored(c, damage, damage_type) ==
    LET dmg == modify_damage(c, damage, damage_type)
        after == IF c.shields > 0
                 THEN [c EXCEPT !.shields = c.shields - dmg]
                 ELSE [c EXCEPT !.armor = c.armor - dmg]
    IN  [c |-> after,
         applied |-> Max(0, (c.armor + c.shields) - (after.shields + after.armor))]

\* Mutant: damage exceeding the shields is carried over to the armor.
apply_damage_carry(c, damage, damage_type) ==
    LET dmg == modify_damage(c, damage, damage_type)
        after == IF c.shields > 0
                 THEN [c EXCEPT !.shields = Max(0, c.shields - dmg),
                                !.armor = Max(0, c.armor - Max(0, dmg - c.shields))]
                 ELSE [c EXCEPT !.armor = Max(0, c.armor - dmg)]
    IN  [c |-> after,
         applied |-> Max(0, (c.armor + c.shields) - (after.shields + after.armor))]

\* Mutant: the modified damage is returned instead of the pool reduction.
apply_damage_nominal(c, damage, damage_type) ==
    LET dmg == modify_damage(c, damage, damage_type)
        after == IF c.shields > 0
                 THEN [c EXCEPT !.shields = Max(0, c.shields - dmg)]
                 ELSE [c EXCEPT !.armor = Max(0, c.armor - dmg)]
    IN  [c |-> after, applied |-> dmg]

\* Combatant.apply_damage: the combatant after the call and the returned value.
apply_damage(c, damage, damage_type) ==
    LET effective_hp == c.armor + c.shields
        dmg == modify_damage(c, damage, damage_type)
        after == IF c.shields > 0
                 THEN [c EXCEPT !.shields = Max(0, c.shields - dmg)]
                 ELSE [c EXCEPT !.armor = Max(0, c.armor - dmg)]
        applied_damage == effective_hp - (after.shields + after.armor)
    IN  [c |-> after, applied |-> Max(0, applied_damage)]

\* Combatant.get_damage: getattr(self, damage_type.value.lower())
get_damage(c, damage_type) ==
    CASE damage_type = "Firepower" -> c.firepower
      [] damage_type = "Chemical" -> c.chemical
      [] damage_type = "Ballistics" -> c.ballistics

is_dead(c) == c.armor <= 0

(***************************************************************************)
(* Signals and payloads                                                    *)
(***************************************************************************)
NoData == [kind |-> "none"]

PostVelocityRollData(roll_a, roll_b, total_velocity_a, total_velocity_b, a_is_attacking) ==
    [kind |-> "velocity", roll_a |-> roll_a, roll_b |-> roll_b,
     total_velocity_a |-> total_velocity_a, total_velocity_b |-> total_velocity_b,
     a_is_attacking |-> a_is_attacking]

HitRollData(base_roll, hit_chance, att_mod, def_mod, does_hit) ==
    [kind |-> "hit", base_roll |-> base_roll, hit_chance |-> hit_chance,
     att_mod |-> att_mod, def_mod |-> def_mod, does_hit |-> does_hit]

DamageData(attacker_is_a, pre_damage_armor, pre_damage_shields, damage) ==
    [kind |-> "damage", attacker_is_a |-> attacker_is_a,
     pre_damage_armor |-> pre_damage_armor, pre_damage_shields |-> pre_damage_shields,
     damage |-> damage]

Signal(type, data) == [type |-> type, data |-> data]

(***************************************************************************)
(* Phase types                                                             *)
(***************************************************************************)
AttackStateTypes == {"FirepowerAttack", "BallisticsAttack", "ChemicalAttack"}
TurnStateTypes == AttackStateTypes \cup {"TurnStart", "TurnEnd"}
PhaseTypes == TurnStateTypes \cup {"Start", "RoundStart", "VelocityRoll", "RoundEnd", "End"}

\* isinstance(state, cls) for a snapshot of concrete class type
IsInstance(type, cls) ==
    \/ type = cls
    \/ cls = "BattleState" /\ type \in PhaseTypes
    \/ cls = "TurnState" /\ type \in TurnStateTypes
    \/ cls = "AttackState" /\ type \in AttackStateTypes

\* The att_type default of each attack class
AttTypeOf(type) ==
    CASE type = "BallisticsAttack" -> "Ballistics"
      [] type = "ChemicalAttack" -> "Chemical"
      [] type = "FirepowerAttack" -> "Firepower"
      [] OTHER -> "None"

(***************************************************************************)
(* Hooks: effects (combatants.py, test_core.py) and terrains (terrains.py) *)
(*                                                                         *)
(* A hook works on h = [st, data, raised]: the snapshot it is handed       *)
(* (whose combatants it may change), the payload of the signal, and the    *)
(* exception that is propagating out of apply_effects ("none" when none    *)
(* is).                                                                    *)
(***************************************************************************)
NewEffect(name) == [name |-> name, trigger_count |-> 0, target_state |-> "None",
                    src |-> 0, idx |-> 0]

\* An effect that keeps a list of what it is called with: its condition always holds
\* and its effect_func appends what it sees to the list.
Recorder(name, target_state) ==
    [name |-> name, trigger_count |-> 0, target_state |-> target_state,
     src |-> 0, idx |-> 0, log |-> <<>>]
RecorderNames == {"Recorder", "Attack Recorder"}

\* How often the recorder named "Recorder" of combatant c was called (0 without one)
Recorded(c) ==
    IF \E i \in DOMAIN c.effects : c.effects[i].name = "Recorder"
    THEN Len(c.effects[CHOOSE i \in DOMAIN c.effects : c.effects[i].name = "Recorder"].log)
    ELSE 0

NoTerrain == [name |-> "None", triggered |-> FALSE]
NewTerrain(name) == [name |-> name, triggered |-> FALSE]

Own(st, from_a) == IF from_a THEN st.combatant_a ELSE st.combatant_b
Other(st, from_a) == IF from_a THEN st.combatant_b ELSE st.combatant_a
SetOwn(st, from_a, c) ==
    IF from_a THEN [st EXCEPT !.combatant_a = c] ELSE [st EXCEPT !.combatant_b = c]
SetOther(st, from_a, c) == SetOwn(st, ~from_a, c)

\* trigger_condition(effect, state, signal, effect_from_a). "Round Bell" and "Final
\* Bell" stand for effects that listen to ROUND_END and to BATTLE_END and do nothing
\* else, so that their trigger_count counts the signals; "Round Bell" listens only
\* as long as the "Final Bell" beside it has not triggered. "Usurper" and "Jinx"
\* stand for effects that overwrite a payload field in place.
EffectCondition(e, h, sig, from_a) ==
    CASE e.name = "Power Up" -> sig.type = "ROUND_START"
      [] e.name = "Switcharoo" -> Other(h.st, from_a).shields = 0 /\ e.trigger_count = 0
      [] e.name = "Extra" ->
            /\ sig.type = "POST_HIT_ROLL"
            /\ h.data.does_hit
            /\ h.st.att_type = "Ballistics"
      [] e.name = "Last Stand" -> Own(h.st, from_a).armor = 0 /\ e.trigger_count = 0
      [] e.name = "Flare Knives" -> sig.type = "ROUND_START" /\ e.trigger_count < 10
      [] e.name = "Borked" -> sig.type = "ROUND_START"
      [] e.name = "Round Bell" ->
            /\ sig.type = "ROUND_END"
            /\ \A j \in DOMAIN Own(h.st, from_a).effects :
                    Own(h.st, from_a).effects[j].name = "Final Bell"
                        => Own(h.st, from_a).effects[j].trigger_count = 0
      [] e.name = "Final Bell" -> sig.type = "BATTLE_END"
      [] e.name \in RecorderNames -> TRUE
      [] e.name = "Usurper" -> sig.type = "POST_VELOCITY_ROLL"
      [] e.name = "Jinx" -> sig.type = "POST_HIT_ROLL"
      [] OTHER -> FALSE

\* Whether trigger_condition raises: "Jammed" stands for an effect whose condition
\* fails on ROUND_START.
EffectConditionRaises(e, h, sig, from_a) ==
    e.name = "Jammed" /\ sig.type = "ROUND_START"

\* Whether effect_func raises: "Borked" stands for an effect whose action fails
\* before it changes anything.
EffectFuncRaises(e, h, sig, from_a) ==
    e.name = "Borked"

\* effect_func(effect, state, signal, effect_from_a)
EffectFunc(e, h, sig, from_a) ==
    LET own == Own(h.st, from_a)
        other == Other(h.st, from_a)
    IN  CASE e.name = "Power Up" ->
                IF from_a
                THEN [h EXCEPT !.st = SetOwn(h.st, from_a,
                                             [own EXCEPT !.firepower = own.firepower + 10])]
                ELSE h
          [] e.name = "Switcharoo" ->
                [h EXCEPT !.st = SetOwn(h.st, from_a,
                                        [own EXCEPT !.chemical = own.firepower,
                                                    !.firepower = own.chemical])]
          [] e.name = "Extra" ->
                [h EXCEPT !.st = SetOwn(h.st, from_a,
                                        [own EXCEPT !.chemical = own.chemical + 60])]
          [] e.name = "Last Stand" ->
                [h EXCEPT !.st = SetOwn(h.st, from_a, [own EXCEPT !.armor = 1])]
          [] e.name = "Flare Knives" ->
                [h EXCEPT !.st = SetOther(h.st, from_a,
                                          apply_damage(other, 15, "Firepower").c)]
          [] e.name \in RecorderNames ->
                LET i == CHOOSE i \in DOMAIN own.effects : own.effects[i].name = e.name
                    entry == [type |-> sig.type, phase |-> h.st.type, from_a |-> from_a,
                              data |-> h.data, terrain_triggered |-> h.st.terrain.triggered,
                              own_recorded |-> Recorded(own),
                              other_recorded |-> Recorded(other),
                              pools |-> <<h.st.combatant_a.armor, h.st.combatant_a.shields,
                                          h.st.combatant_b.armor, h.st.combatant_b.shields>>]
                IN  [h EXCEPT !.st = SetOwn(h.st, from_a,
                                    [own EXCEPT !.effects[i].log = Append(@, entry)])]
          [] e.name = "Usurper" -> [h EXCEPT !.data.a_is_attacking = ~@]
          [] e.name = "Jinx" -> [h EXCEPT !.data.does_hit = ~@]
          [] OTHER -> h

\* self.trigger_count += 1. An effect merged in from an add-on is the add-on's own
\* Effect object (merge_inplace extends the list with the same objects), so the
\* add-on's record kept in the snapshot counts with it.
CountTrigger(st, from_a, i) ==
    LET e == Own(st, from_a).effects[i]
        counted == IF from_a
                   THEN [st EXCEPT !.combatant_a.effects[i].trigger_count = @ + 1]
                   ELSE [st EXCEPT !.combatant_b.effects[i].trigger_count = @ + 1]
    IN  IF e.src = 0 THEN counted
        ELSE IF from_a
        THEN [counted EXCEPT !.adds_a[e.src].effects[e.idx].trigger_count = @ + 1]
        ELSE [counted EXCEPT !.adds_b[e.src].effects[e.idx].trigger_count = @ + 1]

\* Mutant: the exception is raised again in every mode.
EffectCaught_strict(h) == [h EXCEPT !.raised = "Exception"]

\* except Exception as e: ... if settings.is_debug(): raise e
EffectCaught(h) ==
    IF settings = "DEBUG" THEN [h EXCEPT !.raised = "Exception"] ELSE h

\* Effect.apply for the i-th effect of one side
EffectApply(h, sig, from_a, i) ==
    LET e == Own(h.st, from_a).effects[i]
    IN  IF e.target_state # "None" /\ ~IsInstance(h.st.type, e.target_state)
        THEN h
        ELSE IF EffectConditionRaises(e, h, sig, from_a)
        THEN EffectCaught(h)
        ELSE IF EffectCondition(e, h, sig, from_a)
        THEN IF EffectFuncRaises(e, h, sig, from_a)
             THEN EffectCaught(h)
             ELSE LET done == EffectFunc(e, h, sig, from_a)
                  IN  [done EXCEPT !.st = CountTrigger(done.st, from_a, i)]
        ELSE h

\* Terrain.condition(self, state, signal)
TerrainCondition(t, h, sig) ==
    CASE t.name = "Swamp" -> sig.type = "ROUND_START"
      [] t.name = "Lake Tampua" -> sig.type = "POST_HIT_ROLL" /\ h.data.kind # "none"
      [] t.name = "Malvinas" ->
            /\ sig.type \in {"POST_HIT_ROLL", "POST_DMG_CALC"}
            /\ IsInstance(h.st.type, "AttackState")
            /\ h.st.att_type = "Ballistics"
      [] t.name = "Badaxsan" ->
            /\ sig.type = "POST_DMG_APPLICATION"
            /\ h.data.kind # "none"
            /\ IsInstance(h.st.type, "AttackState")
            /\ h.st.att_type = "Ballistics"
      [] t.name = "Ruthenian Grasses" -> sig.type = "BATTLE_START"
      [] OTHER -> FALSE

\* Whether Terrain.effect raises: ruthenian_grasses_effect asserts that the signal is
\* POST_HIT_ROLL, and its condition lets it run on BATTLE_START only.
TerrainEffectRaises(t, h, sig) ==
    t.name = "Ruthenian Grasses" /\ sig.type # "POST_HIT_ROLL"

\* Terrain.effect(self, state, signal)
TerrainEffect(t, h, sig) ==
    LET a == h.st.combatant_a
        b == h.st.combatant_b
    IN  CASE t.name = "Swamp" ->
                [h EXCEPT !.st.combatant_a.velocity = Max(a.velocity - 5, 0),
                          !.st.combatant_b.velocity = Max(b.velocity - 5, 0)]
          [] t.name = "Lake Tampua" ->
                IF h.data.base_roll < 100
                THEN LET att == Own(h.st, h.st.a_is_attacking)
                         hurt == apply_damage(att, 100, "Ballistics").c
                     IN  [h EXCEPT !.st = SetOwn(h.st, h.st.a_is_attacking,
                                [hurt EXCEPT !.velocity = Max(0, hurt.velocity - 50)])]
                ELSE h
          [] t.name = "Malvinas" ->
                IF sig.type = "POST_HIT_ROLL"
                THEN [h EXCEPT !.data.base_roll = @ + 20]
                ELSE [h EXCEPT !.data.damage = @ + 20]
          [] t.name = "Badaxsan" ->
                IF h.data.damage > 0
                THEN LET def == Other(h.st, h.data.attacker_is_a)
                     IN  [h EXCEPT !.st = SetOther(h.st, h.data.attacker_is_a,
                                [def EXCEPT !.velocity = Max(0, def.velocity - 4)])]
                ELSE h
          [] OTHER -> h

\* Terrain.apply_effect: nothing catches what the condition or the effect raises.
TerrainApplyEffect(h, sig) ==
    IF TerrainCondition(h.st.terrain, h, sig)
    THEN IF TerrainEffectRaises(h.st.terrain, h, sig)
         THEN [h EXCEPT !.raised = "AssertionError"]
         ELSE [TerrainEffect(h.st.terrain, h, sig) EXCEPT !.st.terrain.triggered = TRUE]
    ELSE h

RECURSIVE ApplySideEffects(_, _, _, _)
\* for effect in self.combatant_x.effects: effect.apply(self, signal, from_a)
\* (what one hook left is bound once, as h1, and handed to the next)
ApplySideEffects(h, sig, from_a, i) ==
    IF h.raised # "none" \/ i > Len(Own(h.st, from_a).effects)
    THEN h
    ELSE CHOOSE done \in {ApplySideEffects(h1, sig, from_a, i + 1) :
                            h1 \in {EffectApply(h, sig, from_a, i)}} : TRUE

\* Mutant: the terrain comes after the effects of the two sides.
apply_effects_terrain_last(st, sig) ==
    CHOOSE done \in
        {IF h2.raised = "none" /\ st.terrain.name # "None"
         THEN TerrainApplyEffect(h2, sig) ELSE h2 :
            h2 \in {ApplySideEffects(h1, sig, FALSE, 1) :
                h1 \in {ApplySideEffects([st |-> st, data |-> sig.data, raised |-> "none"],
                                         sig, TRUE, 1)}}} : TRUE

\* BattleState.apply_effects: terrain, then side A's effects, then side B's.
apply_effects(st, sig) ==
    CHOOSE done \in
        {ApplySideEffects(h2, sig, FALSE, 1) :
            h2 \in {ApplySideEffects(h1, sig, TRUE, 1) :
                h1 \in {IF st.terrain.name # "None"
                        THEN TerrainApplyEffect(
                                [st |-> st, data |-> sig.data, raised |-> "none"], sig)
                        ELSE [st |-> st, data |-> sig.data, raised |-> "none"]}}} : TRUE

(***************************************************************************)
(* Snapshots (BattleState and its subclasses)                              *)
(*                                                                         *)
(* A snapshot is one record shape for every class; a field the class does  *)
(* not have holds its default. pydantic keeps model instances as they are  *)
(* when a snapshot is constructed from a dump, so every snapshot of a      *)
(* battle, archived or live, holds the same Combatant and Terrain objects: *)
(* an archived entry records the structural fields only and its objects    *)
(* are read through the live snapshot.                                     *)
(***************************************************************************)
NoState ==
    [type |-> "None", round_count |-> 0, random_seed |-> 0, saved_states |-> <<>>,
     a_is_attacking |-> FALSE, has_a_finished_their_turn |-> FALSE,
     has_b_finished_their_turn |-> FALSE, att_type |-> "None", archived_copy |-> FALSE,
     terrain |-> NoTerrain, adds_a |-> <<>>, adds_b |-> <<>>,
     main_a |-> NewCombatant("None", 0, 0, 0, 0, 0, 0),
     main_b |-> NewCombatant("None", 0, 0, 0, 0, 0, 0),
     combatant_a |-> NewCombatant("None", 0, 0, 0, 0, 0, 0),
     combatant_b |-> NewCombatant("None", 0, 0, 0, 0, 0, 0)]

\* The copy save_state appends: dump, minus saved_states, constructed again.
Archived(st) ==
    [type |-> st.type, round_count |-> st.round_count, random_seed |-> st.random_seed,
     a_is_attacking |-> st.a_is_attacking,
     has_a_finished_their_turn |-> st.has_a_finished_their_turn,
     has_b_finished_their_turn |-> st.has_b_finished_their_turn,
     att_type |-> st.att_type, archived_copy |-> (st.type = "End")]

\* BattleState.save_state
save_state(st) ==
    IF archive_on THEN [st EXCEPT !.saved_states = Append(@, Archived(st))] ELSE st

\* Mutant: End does not archive itself when it is built.
Construct_plain(cls, st) ==
    [st EXCEPT
        !.type = cls,
        !.a_is_attacking = (cls \in TurnStateTypes) /\ st.a_is_attacking,
        !.has_a_finished_their_turn = (cls \in TurnStateTypes) /\ st.has_a_finished_their_turn,
        !.has_b_finished_their_turn = (cls \in TurnStateTypes) /\ st.has_b_finished_their_turn,
        !.att_type = AttTypeOf(cls),
        !.archived_copy = FALSE]

\* cls(**dump): the base fields are taken over, the turn fields only by a TurnState
\* class (extra = "ignore"), att_type is the class default; End archives itself in
\* __post_init__.
Construct(cls, st) ==
    LET turn == cls \in TurnStateTypes
        made == [st EXCEPT
                    !.type = cls,
                    !.a_is_attacking = turn /\ st.a_is_attacking,
                    !.has_a_finished_their_turn = turn /\ st.has_a_finished_their_turn,
                    !.has_b_finished_their_turn = turn /\ st.has_b_finished_their_turn,
                    !.att_type = AttTypeOf(cls),
                    !.archived_copy = FALSE]
    IN  IF cls = "End" THEN save_state(made) ELSE made

\* Mutant: only the side under attack is looked at.
had_someone_died_defending(st) ==
    IF st.a_is_attacking THEN is_dead(st.combatant_b) ELSE is_dead(st.combatant_a)

\* BattleState.had_someone_died
had_someone_died(st) == is_dead(st.combatant_a) \/ is_dead(st.combatant_b)

\* Mutant: the add-on's shields are not added.
merge_inplace_unshielded(c, other, k) ==
    [c EXCEPT !.armor = @ + other.armor,
              !.ballistics = @ + other.ballistics,
              !.chemical = @ + other.chemical,
              !.firepower = @ + other.firepower,
              !.velocity = @ + other.velocity,
              !.effects = @ \o [j \in 1..Len(other.effects) |->
                                   [other.effects[j] EXCEPT !.src = k, !.idx = j]]]

\* Combatant.merge_inplace for the k-th add-on: the stats are added and the add-on's
\* Effect objects themselves are appended.
merge_inplace(c, other, k) ==
    [c EXCEPT !.armor = @ + other.armor,
              !.shields = @ + other.shields,
              !.ballistics = @ + other.ballistics,
              !.chemical = @ + other.chemical,
              !.firepower = @ + other.firepower,
              !.velocity = @ + other.velocity,
              !.effects = @ \o [j \in 1..Len(other.effects) |->
                                   [other.effects[j] EXCEPT !.src = k, !.idx = j]]]

RECURSIVE MergeAdds(_, _, _)
\* for ca in adds: combatant.merge_inplace(ca)
MergeAdds(c, adds, k) ==
    IF k > Len(adds) THEN c ELSE MergeAdds(merge_inplace(c, adds[k], k), adds, k + 1)

\* A seed above MaxSeed stands for a time-derived one (time.time_ns()).
TimeSeed(t) == MaxSeed + 1 + t
IsTimeSeed(seed) == seed > MaxSeed

\* Start.initialize
Initialize(main_a, main_b, adds_a, adds_b, terrain, random_seed) ==
    [NoState EXCEPT
        !.type = "Start",
        !.combatant_a = MergeAdds(main_a, adds_a, 1),
        !.main_a = main_a,
        !.adds_a = adds_a,
        !.combatant_b = MergeAdds(main_b, adds_b, 1),
        !.main_b = main_b,
        !.adds_b = adds_b,
        !.terrain = terrain,
        !.random_seed = random_seed]

(***************************************************************************)
(* The generator                                                           *)
(***************************************************************************)
\* Mutant: the draws come from one generator that all simulators share, so a later
\* simulator goes on in the stream where the one before it stopped.
randint_shared(seed, pos, lo, hi) ==
    lo + ((seed * 7919 + (pos + run) * 104729 + (pos + run) * (pos + run) * 31 + 12345)
            % (hi - lo + 1))

\* random.Random(seed).randint(lo, hi) at the pos-th draw: a fixed function of the seed
\* and the position (standing for the Mersenne Twister stream of that seed).
randint(seed, pos, lo, hi) ==
    lo + ((seed * 7919 + (pos + 1) * 104729 + (pos + 1) * (pos + 1) * 31 + 12345)
            % (hi - lo + 1))

\* The values a draw may return. The stream of a time-derived seed is unknown: any
\* value may come, and one value of each class the transitions and hooks tell apart
\* is tried (the position in such a stream is not recorded).
VelocityRolls(g, pos) ==
    IF IsTimeSeed(g.seed)
    THEN {VelocityRollMin, VelocityRollMax}
    ELSE {randint(g.seed, pos, VelocityRollMin, VelocityRollMax)}

HitRolls(g, threshold) ==
    IF IsTimeSeed(g.seed)
    THEN {HitRollMin, HitRollMax}
            \cup ({threshold - 1, threshold} \cap (HitRollMin..HitRollMax))
    ELSE {randint(g.seed, g.pos, HitRollMin, HitRollMax)}

(***************************************************************************)
(* Transitions. Each returns                                               *)
(*   raised  "none", or the exception the call raised                      *)
(*   self    the snapshot transition() was called on, as the call left it  *)
(*   next    the snapshot returned (meaningful when raised = "none")       *)
(*   draws   how many values were drawn from the generator                 *)
(***************************************************************************)
Result(raised, self, next, draws) ==
    [raised |-> raised, self |-> self, next |-> next, draws |-> draws]

\* dict.get(key, 0)
Get(d, key) == IF key \in DOMAIN d THEN d[key] ELSE 0

Attacker(st) == IF st.a_is_attacking THEN st.combatant_a ELSE st.combatant_b
Defender(st) == IF st.a_is_attacking THEN st.combatant_b ELSE st.combatant_a
SetDefender(st, c) ==
    IF st.a_is_attacking THEN [st EXCEPT !.combatant_b = c] ELSE [st EXCEPT !.combatant_a = c]

\* The right-hand side of the hit test, 500 - hit_chance, with the modifiers moved over:
\* the attack hits when the roll is at least this.
HitThreshold(st) ==
    LET att == Attacker(st)
        def == Defender(st)
    IN  HitBase - ((att.velocity - def.velocity) \div 2)
            - Get(att.attack_hit_chance_mod, st.att_type)
            + Get(def.defense_hit_chance_mod, st.att_type)

\* Mutant: POST_ATTACK is not emitted.
calculate_hit_quiet(st, base_hit) ==
    LET att == Attacker(st)
        def == Defender(st)
        hit_chance == (att.velocity - def.velocity) \div 2
        att_mod == Get(att.attack_hit_chance_mod, st.att_type)
        def_mod == Get(def.defense_hit_chance_mod, st.att_type)
        does_hit == base_hit + att_mod - def_mod >= HitBase - hit_chance
        ctx == HitRollData(base_hit, hit_chance, att_mod, def_mod, does_hit)
    IN  CHOOSE hit \in
            {[st |-> h1.st, does_hit |-> h1.raised = "none" /\ h1.data.does_hit,
              raised |-> h1.raised] :
                h1 \in {apply_effects(st, Signal("POST_HIT_ROLL", ctx))}} : TRUE

\* Mutant: the halved velocity difference is rounded towards zero.
calculate_hit_truncated(st, base_hit) ==
    LET att == Attacker(st)
        def == Defender(st)
        diff == att.velocity - def.velocity
        hit_chance == IF diff >= 0 THEN diff \div 2 ELSE 0 - ((0 - diff) \div 2)
        att_mod == Get(att.attack_hit_chance_mod, st.att_type)
        def_mod == Get(def.defense_hit_chance_mod, st.att_type)
        does_hit == base_hit + att_mod - def_mod >= HitBase - hit_chance
        ctx == HitRollData(base_hit, hit_chance, att_mod, def_mod, does_hit)
        PostAttack(h1) ==
            IF h1.raised # "none"
            THEN [st |-> h1.st, does_hit |-> FALSE, raised |-> h1.raised]
            ELSE CHOOSE hit \in
                    {[st |-> h2.st, does_hit |-> h1.data.does_hit, raised |-> h2.raised] :
                        h2 \in {apply_effects(h1.st, Signal("POST_ATTACK", NoData))}} : TRUE
    IN  CHOOSE hit \in
            {PostAttack(h1) : h1 \in {apply_effects(st, Signal("POST_HIT_ROLL", ctx))}} : TRUE

\* AttackState.calculate_hit, on the snapshot PRE_ATTACK left: [st, does_hit, raised]
calculate_hit(st, base_hit) ==
    LET att == Attacker(st)
        def == Defender(st)
        hit_chance == (att.velocity - def.velocity) \div 2
        att_mod == Get(att.attack_hit_chance_mod, st.att_type)
        def_mod == Get(def.defense_hit_chance_mod, st.att_type)
        does_hit == base_hit + att_mod - def_mod >= HitBase - hit_chance
        ctx == HitRollData(base_hit, hit_chance, att_mod, def_mod, does_hit)
        \* h1: what the POST_HIT_ROLL hooks left; the outcome is read back from the payload
        PostAttack(h1) ==
            IF h1.raised # "none"
            THEN [st |-> h1.st, does_hit |-> FALSE, raised |-> h1.raised]
            ELSE CHOOSE hit \in
                    {[st |-> h2.st, does_hit |-> h1.data.does_hit, raised |-> h2.raised] :
                        h2 \in {apply_effects(h1.st, Signal("POST_ATTACK", NoData))}} : TRUE
    IN  CHOOSE hit \in
            {PostAttack(h1) : h1 \in {apply_effects(st, Signal("POST_HIT_ROLL", ctx))}} : TRUE

\* AttackState.process_attack: [st, raised, draws]. Each stage is handed what the
\* stages before it left: s1 after the hit roll, h1 after POST_DMG_CALC, dealt the
\* apply_damage call, h2 after POST_DMG_APPLICATION. An exception a hook lets out ends
\* the call where it is raised.
process_attack(st, base_hit) ==
    LET Asserted(s1, dealt, h2) ==
            [st |-> h2.st,
             raised |-> IF h2.raised # "none" THEN h2.raised
                        ELSE IF /\ settings = "DEBUG"
                                /\ dealt.applied = 0
                                /\ get_damage(Attacker(h2.st), s1.att_type) # 0
                        THEN "AssertionError" ELSE "none",
             draws |-> 1]
        PostDmgApplication(s1, h1, dealt) ==
            CHOOSE p \in
                {Asserted(s1, dealt, h2) :
                    h2 \in {apply_effects(SetDefender(h1.st, dealt.c),
                                Signal("POST_DMG_APPLICATION",
                                       DamageData(s1.a_is_attacking, Defender(s1).armor,
                                                  Defender(s1).shields, h1.data.damage)))}} : TRUE
        ApplyDamage(s1, h1) ==
            IF h1.raised # "none"
            THEN [st |-> h1.st, raised |-> h1.raised, draws |-> 1]
            ELSE CHOOSE p \in
                    {PostDmgApplication(s1, h1, dealt) :
                        dealt \in {apply_damage(Defender(h1.st), h1.data.damage, s1.att_type)}} : TRUE
        PostDmgCalc(s1) ==
            CHOOSE p \in
                {ApplyDamage(s1, h1) :
                    h1 \in {apply_effects(s1,
                                Signal("POST_DMG_CALC",
                                       DamageData(s1.a_is_attacking, Defender(s1).armor,
                                                  Defender(s1).shields,
                                                  get_damage(Attacker(s1), s1.att_type))))}} : TRUE
        AfterHit(hit) ==
            IF hit.raised = "none" /\ hit.does_hit
            THEN PostDmgCalc(hit.st)
            ELSE [st |-> hit.st, raised |-> hit.raised, draws |-> 1]
        Hit(h0) ==
            IF h0.raised # "none"
            THEN [st |-> h0.st, raised |-> h0.raised, draws |-> 0]
            ELSE CHOOSE p \in {AfterHit(hit) : hit \in {calculate_hit(h0.st, base_hit)}} : TRUE
    IN  CHOOSE p \in
            {Hit(h0) : h0 \in {apply_effects(st, Signal("PRE_ATTACK", NoData))}} : TRUE

\* _transition is left by an exception that apply_effects let out.
Failed(h, draws) == Result(h.raised, h.st, h.st, draws)

\* Start._transition
Start_transition(st) ==
    CHOOSE r \in
        {IF h.raised # "none" THEN Failed(h, 0)
         ELSE Result("none", h.st, Construct("RoundStart", h.st), 0) :
            h \in {apply_effects(save_state(st), Signal("BATTLE_START", NoData))}} : TRUE

\* Mutant: round_count is not incremented.
RoundStart_transition_frozen(st) ==
    CHOOSE r \in
        {IF h.raised # "none" THEN Failed(h, 0)
         ELSE Result("none", h.st, Construct("VelocityRoll", h.st), 0) :
            h \in {apply_effects(save_state(st), Signal("ROUND_START", NoData))}} : TRUE

\* Mutant: ROUND_START is emitted twice.
RoundStart_transition_twice(st) ==
    CHOOSE r \in
        {IF h2.raised # "none" THEN Failed(h2, 0)
         ELSE Result("none", h2.st, Construct("VelocityRoll", h2.st), 0) :
            h2 \in {apply_effects(h1.st, Signal("ROUND_START", NoData)) :
                h1 \in {apply_effects([save_state(st) EXCEPT !.round_count = @ + 1],
                                      Signal("ROUND_START", NoData))}}} : TRUE

\* RoundStart._transition
RoundStart_transition(st) ==
    CHOOSE r \in
        {IF h.raised # "none" THEN Failed(h, 0)
         ELSE Result("none", h.st, Construct("VelocityRoll", h.st), 0) :
            h \in {apply_effects([save_state(st) EXCEPT !.round_count = @ + 1],
                                 Signal("ROUND_START", NoData))}} : TRUE

\* Mutant: the side computed from the totals is used, whatever the hooks left in the
\* payload.
VelocityRoll_transition_deaf(st, roll_a, roll_b) ==
    LET Rolled(s1, total_velocity_a, total_velocity_b) ==
            CHOOSE r \in
                {IF h2.raised # "none" THEN Failed(h2, 2)
                 ELSE Result("none", h2.st,
                             [Construct("TurnStart", h2.st) EXCEPT
                                 !.a_is_attacking = total_velocity_a >= total_velocity_b,
                                 !.has_a_finished_their_turn = FALSE,
                                 !.has_b_finished_their_turn = FALSE],
                             2) :
                    h2 \in {apply_effects(s1, Signal("POST_VELOCITY_ROLL",
                                PostVelocityRollData(roll_a, roll_b,
                                                     total_velocity_a, total_velocity_b,
                                                     total_velocity_a >= total_velocity_b)))}} : TRUE
    IN  CHOOSE r \in
            {IF h1.raised # "none" THEN Failed(h1, 0)
             ELSE Rolled(h1.st, h1.st.combatant_a.velocity + roll_a,
                         h1.st.combatant_b.velocity + roll_b) :
                h1 \in {apply_effects(save_state(st), Signal("PRE_VELOCITY_ROLL", NoData))}} : TRUE

\* Mutant: a tie of the totals goes to side B.
VelocityRoll_transition_strict(st, roll_a, roll_b) ==
    LET Made(h2) ==
            IF h2.raised # "none" THEN Failed(h2, 2)
            ELSE Result("none", h2.st,
                        [Construct("TurnStart", h2.st) EXCEPT
                            !.a_is_attacking = h2.data.a_is_attacking,
                            !.has_a_finished_their_turn = FALSE,
                            !.has_b_finished_their_turn = FALSE],
                        2)
        Rolled(s1, total_velocity_a, total_velocity_b) ==
            CHOOSE r \in
                {Made(h2) :
                    h2 \in {apply_effects(s1, Signal("POST_VELOCITY_ROLL",
                                PostVelocityRollData(roll_a, roll_b,
                                                     total_velocity_a, total_velocity_b,
                                                     total_velocity_a > total_velocity_b)))}} : TRUE
    IN  CHOOSE r \in
            {IF h1.raised # "none" THEN Failed(h1, 0)
             ELSE Rolled(h1.st, h1.st.combatant_a.velocity + roll_a,
                         h1.st.combatant_b.velocity + roll_b) :
                h1 \in {apply_effects(save_state(st), Signal("PRE_VELOCITY_ROLL", NoData))}} : TRUE

\* VelocityRoll._transition
VelocityRoll_transition(st, roll_a, roll_b) ==
    LET Made(h2) ==
            IF h2.raised # "none" THEN Failed(h2, 2)
            ELSE Result("none", h2.st,
                        [Construct("TurnStart", h2.st) EXCEPT
                            !.a_is_attacking = h2.data.a_is_attacking,
                            !.has_a_finished_their_turn = FALSE,
                            !.has_b_finished_their_turn = FALSE],
                        2)
        Rolled(s1, total_velocity_a, total_velocity_b) ==
            CHOOSE r \in
                {Made(h2) :
                    h2 \in {apply_effects(s1, Signal("POST_VELOCITY_ROLL",
                                PostVelocityRollData(roll_a, roll_b,
                                                     total_velocity_a, total_velocity_b,
                                                     total_velocity_a >= total_velocity_b)))}} : TRUE
    IN  CHOOSE r \in
            {IF h1.raised # "none" THEN Failed(h1, 0)
             ELSE Rolled(h1.st, h1.st.combatant_a.velocity + roll_a,
                         h1.st.combatant_b.velocity + roll_b) :
                h1 \in {apply_effects(save_state(st), Signal("PRE_VELOCITY_ROLL", NoData))}} : TRUE

\* Mutant: TurnStart draws a value too.
TurnStart_transition_drawing(st) ==
    CHOOSE r \in
        {IF h.raised # "none" THEN Failed(h, 0)
         ELSE Result("none", h.st, Construct("FirepowerAttack", h.st), 1) :
            h \in {apply_effects(save_state(st), Signal("TURN_START", NoData))}} : TRUE

\* TurnStart._transition
TurnStart_transition(st) ==
    CHOOSE r \in
        {IF h.raised # "none" THEN Failed(h, 0)
         ELSE Result("none", h.st, Construct("FirepowerAttack", h.st), 0) :
            h \in {apply_effects(save_state(st), Signal("TURN_START", NoData))}} : TRUE

\* Mutant: the Chemical attack comes before the Ballistics attack.
Attack_transition_reordered(st, base_hit) ==
    LET Made(p) ==
            LET nxt == CASE st.type = "FirepowerAttack" ->
                                IF had_someone_died(p.st) THEN "TurnEnd" ELSE "ChemicalAttack"
                         [] st.type = "BallisticsAttack" ->
                                IF had_someone_died(p.st) THEN "TurnEnd" ELSE "TurnEnd"
                         [] OTHER -> "BallisticsAttack"
            IN  IF p.raised # "none" THEN Result(p.raised, p.st, p.st, p.draws)
                ELSE Result("none", p.st, Construct(nxt, p.st), p.draws)
    IN  CHOOSE r \in {Made(p) : p \in {process_attack(save_state(st), base_hit)}} : TRUE

\* FirepowerAttack._transition, BallisticsAttack._transition, ChemicalAttack._transition
Attack_transition(st, base_hit) ==
    LET Made(p) ==
            LET nxt == CASE st.type = "FirepowerAttack" ->
                                IF had_someone_died(p.st) THEN "TurnEnd" ELSE "BallisticsAttack"
                         [] st.type = "BallisticsAttack" ->
                                IF had_someone_died(p.st) THEN "TurnEnd" ELSE "ChemicalAttack"
                         [] OTHER -> "TurnEnd"
            IN  IF p.raised # "none" THEN Result(p.raised, p.st, p.st, p.draws)
                ELSE Result("none", p.st, Construct(nxt, p.st), p.draws)
    IN  CHOOSE r \in {Made(p) : p \in {process_attack(save_state(st), base_hit)}} : TRUE

\* Mutant: the round ends once one side has finished its turn.
TurnEnd_transition_hasty(st) ==
    LET a_finished == st.a_is_attacking \/ st.has_a_finished_their_turn
        b_finished == ~st.a_is_attacking \/ st.has_b_finished_their_turn
        Flipped(flipped) == Result("none", flipped, Construct("TurnStart", flipped), 0)
        Made(h) ==
            IF h.raised # "none" THEN Failed(h, 0)
            ELSE IF had_someone_died(h.st) \/ (a_finished \/ b_finished)
            THEN Result("none", h.st, Construct("RoundEnd", h.st), 0)
            ELSE Flipped([h.st EXCEPT !.a_is_attacking = ~@])
    IN  CHOOSE r \in
            {Made(h) :
                h \in {apply_effects([save_state(st) EXCEPT
                                        !.has_a_finished_their_turn = a_finished,
                                        !.has_b_finished_their_turn = b_finished],
                                     Signal("TURN_END", NoData))}} : TRUE

\* Mutant: the turn of the acting side is not marked as finished.
TurnEnd_transition_unmarked(st) ==
    LET a_finished == st.has_a_finished_their_turn
        b_finished == st.has_b_finished_their_turn
        Flipped(flipped) == Result("none", flipped, Construct("TurnStart", flipped), 0)
        Made(h) ==
            IF h.raised # "none" THEN Failed(h, 0)
            ELSE IF had_someone_died(h.st) \/ (a_finished /\ b_finished)
            THEN Result("none", h.st, Construct("RoundEnd", h.st), 0)
            ELSE Flipped([h.st EXCEPT !.a_is_attacking = ~@])
    IN  CHOOSE r \in
            {Made(h) :
                h \in {apply_effects([save_state(st) EXCEPT
                                        !.has_a_finished_their_turn = a_finished,
                                        !.has_b_finished_their_turn = b_finished],
                                     Signal("TURN_END", NoData))}} : TRUE

\* TurnEnd._transition
TurnEnd_transition(st) ==
    LET a_finished == st.a_is_attacking \/ st.has_a_finished_their_turn
        b_finished == ~st.a_is_attacking \/ st.has_b_finished_their_turn
        Flipped(flipped) == Result("none", flipped, Construct("TurnStart", flipped), 0)
        Made(h) ==
            IF h.raised # "none" THEN Failed(h, 0)
            ELSE IF had_someone_died(h.st) \/ (a_finished /\ b_finished)
            THEN Result("none", h.st, Construct("RoundEnd", h.st), 0)
            ELSE Flipped([h.st EXCEPT !.a_is_attacking = ~@])
    IN  CHOOSE r \in
            {Made(h) :
                h \in {apply_effects([save_state(st) EXCEPT
                                        !.has_a_finished_their_turn = a_finished,
                                        !.has_b_finished_their_turn = b_finished],
                                     Signal("TURN_END", NoData))}} : TRUE

\* Mutant: the end of a round counts the round too.
RoundEnd_transition_counting(st) ==
    LET Ending(h1) ==
            CHOOSE r \in
                {IF h2.raised # "none" THEN Failed(h2, 0)
                 ELSE Result("none", h2.st, Construct("End", h2.st), 0) :
                    h2 \in {apply_effects(h1.st, Signal("BATTLE_END", NoData))}} : TRUE
        Made(h1) ==
            IF h1.raised # "none" THEN Failed(h1, 0)
            ELSE IF had_someone_died(h1.st)
            THEN Ending(h1)
            ELSE Result("none", h1.st, Construct("RoundStart", h1.st), 0)
    IN  CHOOSE r \in
            {Made(h1) :
                h1 \in {apply_effects([save_state(st) EXCEPT !.round_count = @ + 1],
                                      Signal("ROUND_END", NoData))}} : TRUE

\* Mutant: BATTLE_END is emitted before ROUND_END.
RoundEnd_transition_early(st) ==
    LET dead == had_someone_died(st)
        Rung(h1) ==
            CHOOSE r \in
                {IF h2.raised # "none" THEN Failed(h2, 0)
                 ELSE IF dead
                 THEN Result("none", h2.st, Construct("End", h2.st), 0)
                 ELSE Result("none", h2.st, Construct("RoundStart", h2.st), 0) :
                    h2 \in {apply_effects(h1.st, Signal("ROUND_END", NoData))}} : TRUE
    IN  CHOOSE r \in
            {IF h1.raised # "none" THEN Failed(h1, 0) ELSE Rung(h1) :
                h1 \in {IF dead THEN apply_effects(save_state(st), Signal("BATTLE_END", NoData))
                        ELSE [st |-> save_state(st), data |-> NoData, raised |-> "none"]}} : TRUE

\* Mutant: the battle ends at the end of the first round, dead or not.
RoundEnd_transition_ends(st) ==
    CHOOSE r \in
        {Result("none", h2.st, Construct("End", h2.st), 0) :
            h2 \in {apply_effects(h1.st, Signal("BATTLE_END", NoData)) :
                h1 \in {apply_effects(save_state(st), Signal("ROUND_END", NoData))}}} : TRUE

\* RoundEnd._transition
RoundEnd_transition(st) ==
    LET Ending(h1) ==
            CHOOSE r \in
                {IF h2.raised # "none" THEN Failed(h2, 0)
                 ELSE Result("none", h2.st, Construct("End", h2.st), 0) :
                    h2 \in {apply_effects(h1.st, Signal("BATTLE_END", NoData))}} : TRUE
        Made(h1) ==
            IF h1.raised # "none" THEN Failed(h1, 0)
            ELSE IF had_someone_died(h1.st)
            THEN Ending(h1)
            ELSE Result("none", h1.st, Construct("RoundStart", h1.st), 0)
    IN  CHOOSE r \in
            {Made(h1) :
                h1 \in {apply_effects(save_state(st), Signal("ROUND_END", NoData))}} : TRUE

\* Mutant: End inherits BattleState.transition, which archives before it fails.
End_transition_inherited(st) ==
    Result("Exception", [st EXCEPT !.saved_states = Append(@, Archived(st))], st, 0)

\* End.transition: raise Exception("Can't transition from End state")
End_transition(st) ==
    Result("Exception", st, st, 0)

\* No transition has been made on its own.
NoStep == [called |-> FALSE, rolls |-> <<>>, before |-> NoState, raised |-> "none", draws |-> 0]

\* SpecDamage: no apply_damage call yet
NoCall == [called |-> FALSE, damage |-> 0, damage_type |-> "Ballistics",
           armor |-> 0, shields |-> 0, applied |-> 0]

(***************************************************************************)
(* BattleSimulator                                                         *)
(***************************************************************************)
NoSeed == 0 - 1     \* random_seed is None

Simulator(main_a, main_b, adds_a, adds_b, terrain, random_seed) ==
    [main_a |-> main_a, main_b |-> main_b, adds_a |-> adds_a, adds_b |-> adds_b,
     terrain |-> terrain, random_seed |-> random_seed]

NoSim == Simulator(NewCombatant("None", 0, 0, 0, 0, 0, 0),
                   NewCombatant("None", 0, 0, 0, 0, 0, 0), <<>>, <<>>, NoTerrain, NoSeed)

\* The random_seed start_battle passes to Start.initialize
StartSeed(s, mode) ==
    IF mode = "DEBUG" /\ s.random_seed = NoSeed THEN 0 ELSE s.random_seed

\* Mutant: the add-ons and the terrain handed over are the simulator's own objects,
\* which the battle before left as it changed them.
start_battle_shared ==
    LET given == StartSeed(sim, settings)
        seed == IF given = NoSeed THEN TimeSeed(clock) ELSE given
        old == current_state.type # "None"
    IN  /\ current_state' = Initialize(sim.main_a, sim.main_b,
                                       IF old THEN current_state.adds_a ELSE sim.adds_a,
                                       IF old THEN current_state.adds_b ELSE sim.adds_b,
                                       IF old THEN current_state.terrain ELSE sim.terrain,
                                       seed)
        /\ rng' = [seed |-> seed, pos |-> 0]
        /\ clock' = IF given = NoSeed THEN clock + 1 ELSE clock

\* BattleSimulator.start_battle: the new Start snapshot and its generator. The mains,
\* add-ons and terrain handed over are deep copies, so the battle works on values of
\* its own.
start_battle ==
    LET given == StartSeed(sim, settings)
        seed == IF given = NoSeed THEN TimeSeed(clock) ELSE given
    IN  /\ current_state' = Initialize(sim.main_a, sim.main_b, sim.adds_a, sim.adds_b,
                                       sim.terrain, seed)
        /\ rng' = [seed |-> seed, pos |-> 0]
        /\ clock' = IF given = NoSeed THEN clock + 1 ELSE clock

\* The driver call in progress ends, returning (raised = "none") or raising.
Ended(call, raised) ==
    /\ pc' = "idle"
    /\ until' = "RoundEnd"
    /\ outcome' = [call |-> call, raised |-> raised]

\* The driver call in progress goes on.
Continues == UNCHANGED <<pc, until, outcome>>

\* Mutant: run_battle has no round-count assertion.
RoundCountAssertionFails_never(st) == FALSE

\* assert self.current_state.round_count != 300
RoundCountAssertionFails(st) == st.round_count = RoundCeiling

\* A battle draws two velocity rolls and at most two hit rolls a round, for fewer than
\* RoundCeiling rounds: the position in the stream stays below this.
MostDraws == 4 * RoundCeiling

\* Mutant: run_round keeps the snapshot that the transition after its loop returns.
Land_keeps(r) ==
    /\ rng' = IF IsTimeSeed(rng.seed) THEN rng
               ELSE [rng EXCEPT !.pos = Min(@ + r.draws, MostDraws)]
    /\ IF r.raised # "none"
       THEN current_state' = r.self /\ Ended(pc, r.raised)
       ELSE IF pc = "run_battle"
       THEN /\ current_state' = r.next
            /\ IF RoundCountAssertionFails(r.next)
               THEN Ended(pc, "AssertionError")
               ELSE Continues
       ELSE IF ~(IsInstance(current_state.type, until) \/ current_state.type = "RoundEnd")
       THEN current_state' = r.next /\ Continues
       ELSE current_state' = r.next /\ Ended(pc, "none")
    /\ UNCHANGED <<sim, settings, calls, clock, run, prev, archive_on, fresh, multi,
                   victim, last, step>>

\* What the driver loop in progress does with the result r of current_state.transition()
Land(r) ==
    /\ rng' = IF IsTimeSeed(rng.seed) THEN rng
               ELSE [rng EXCEPT !.pos = Min(@ + r.draws, MostDraws)]
    /\ IF r.raised # "none"
       THEN current_state' = r.self /\ Ended(pc, r.raised)
       ELSE IF pc = "run_battle"
       THEN \* self.current_state = self.current_state.transition()
            \* assert self.current_state.round_count != 300
            /\ current_state' = r.next
            /\ IF RoundCountAssertionFails(r.next)
               THEN Ended(pc, "AssertionError")
               ELSE Continues
       ELSE IF ~(IsInstance(current_state.type, until) \/ current_state.type = "RoundEnd")
       THEN \* the while loop of run_round
            current_state' = r.next /\ Continues
       ELSE \* the transition after the loop, whose result run_round does not keep
            current_state' = r.self /\ Ended(pc, "none")
    /\ UNCHANGED <<sim, settings, calls, clock, run, prev, archive_on, fresh, multi,
                   victim, last, step>>

\* No driver call has ended since the last one began.
NoOutcome == [call |-> "none", raised |-> "none"]

\* run_multiple_battles has not been called: results = {"combatant_a": 0,
\* "combatant_b": 0}, total_rounds = 0. begun counts the passes of its loop, seeds
\* lists the seeds of the battles it started, caught is the exception its except
\* clause caught.
NoMulti == [active |-> FALSE, n |-> 0, begun |-> 0, combatant_a |-> 0, combatant_b |-> 0,
            total_rounds |-> 0, seeds |-> <<>>, caught |-> "none"]

\* SpecSeeded: no first simulator has finished yet.
NoPrev == [sim |-> NoSim, state |-> NoState, outcome |-> NoOutcome]

Looping == pc \in {"run_battle", "run_round"}

\* BattleSimulator.run_battle() is called: a simulator without a snapshot, or with an
\* End, starts a battle; any other snapshot is carried on from.
RunBattleCall ==
    /\ pc = "idle" /\ calls < MaxCalls
    /\ IF current_state.type \in {"None", "End"}
       THEN start_battle
       ELSE UNCHANGED <<current_state, rng, clock>>
    /\ pc' = "run_battle"
    /\ calls' = calls + 1
    /\ outcome' = NoOutcome
    /\ fresh' = (current_state.type \in {"None", "End", "Start"})
    /\ UNCHANGED <<sim, settings, until, run, prev, archive_on, multi, victim, last, step>>

\* The loop of run_battle ends: the current snapshot is an End.
RunBattleReturn ==
    /\ pc = "run_battle"
    /\ current_state.type = "End"
    /\ Ended("run_battle", "none")
    /\ UNCHANGED <<sim, settings, current_state, rng, calls, clock, run, prev, fresh, multi,
                   archive_on, victim, last, step>>

StartTransition ==
    /\ Looping /\ current_state.type = "Start"
    /\ \E r \in {Start_transition(current_state)} : Land(r)

\* Battles of combatants with large pools are explored for MaxRounds rounds; the others
\* run until they end or reach the ceiling.
RoundsExplored(s) ==
    IF s.main_a.armor + s.main_a.shields > 2 * MaxPool THEN MaxRounds ELSE RoundCeiling

RoundStartTransition ==
    /\ Looping /\ current_state.type = "RoundStart"
    /\ current_state.round_count < RoundsExplored(sim)
    /\ \E r \in {RoundStart_transition(current_state)} : Land(r)

VelocityRollTransition ==
    /\ Looping /\ current_state.type = "VelocityRoll"
    /\ \E roll_a \in VelocityRolls(rng, rng.pos), roll_b \in VelocityRolls(rng, rng.pos + 1) :
          \E r \in {VelocityRoll_transition(current_state, roll_a, roll_b)} : Land(r)

TurnStartTransition ==
    /\ Looping /\ current_state.type = "TurnStart"
    /\ \E r \in {TurnStart_transition(current_state)} : Land(r)

AttackTransition(type) ==
    /\ Looping /\ current_state.type = type
    /\ \E ready \in {apply_effects(current_state, Signal("PRE_ATTACK", NoData)).st} :
          \E base_hit \in HitRolls(rng, HitThreshold(ready)) :
             \E r \in {Attack_transition(current_state, base_hit)} : Land(r)

FirepowerAttackTransition == AttackTransition("FirepowerAttack")
BallisticsAttackTransition == AttackTransition("BallisticsAttack")
ChemicalAttackTransition == AttackTransition("ChemicalAttack")

TurnEndTransition ==
    /\ Looping /\ current_state.type = "TurnEnd"
    /\ \E r \in {TurnEnd_transition(current_state)} : Land(r)

RoundEndTransition ==
    /\ Looping /\ current_state.type = "RoundEnd"
    /\ \E r \in {RoundEnd_transition(current_state)} : Land(r)

\* run_round reaches current_state.transition() with an End snapshot.
EndTransition ==
    /\ pc = "run_round" /\ current_state.type = "End"
    /\ \E r \in {End_transition(current_state)} : Land(r)

\* The classes run_round is called with
UntilClasses == PhaseTypes \cup {"TurnState", "AttackState"}

\* BattleSimulator.run_round(until) is called. "self.current_state == End" compares a
\* snapshot with the class and is never true, so only a simulator without a snapshot
\* starts a battle.
RunRoundCall ==
    /\ pc = "idle" /\ calls < MaxCalls
    /\ \E u \in UntilClasses : until' = u
    /\ IF current_state.type = "None"
       THEN start_battle
       ELSE UNCHANGED <<current_state, rng, clock>>
    /\ pc' = "run_round"
    /\ calls' = calls + 1
    /\ outcome' = NoOutcome
    /\ fresh' = (current_state.type \in {"None", "Start"})
    /\ UNCHANGED <<sim, settings, run, prev, archive_on, multi, victim, last, step>>

NextBattle ==
    \/ RunBattleCall
    \/ RunBattleReturn
    \/ StartTransition
    \/ RoundStartTransition
    \/ VelocityRollTransition
    \/ TurnStartTransition
    \/ FirepowerAttackTransition
    \/ BallisticsAttackTransition
    \/ ChemicalAttackTransition
    \/ TurnEndTransition
    \/ RoundEndTransition

(***************************************************************************)
(* Spec: one simulator without a configured seed                           *)
(***************************************************************************)
\* tests/utils.py create_combatant(armor, shields, ballistics, chemical, firepower, velocity)
create_combatant(armor, shields, ballistics, chemical, firepower, velocity, name) ==
    NewCombatant(name, armor, shields, ballistics, chemical, firepower, velocity)

\* test_can_do_battle_without_terrain: two copies of create_combatant(50, 50, 10, 10, 10)
Identical == create_combatant(50, 50, 10, 10, 10, 5, "Test Combatant")
\* Attacks that deal nothing: every attack stat is 0.
Harmless == create_combatant(2, 1, 0, 0, 0, 0, "Harmless")
\* Small pools; every attack deals positive damage to either pool.
Duel == create_combatant(1, 1, 2, 2, 2, 5, "Duel")
\* A positive Ballistics stat that the defender's modifiers cancel.
Blunted == [create_combatant(2, 1, 1, 0, 0, 0, "Blunted") EXCEPT
                !.armor_modifiers = ("Ballistics" :> (0 - 60)),
                !.shield_modifiers = ("Ballistics" :> (0 - 60))]
\* test_velocity_roll
Fast == create_combatant(3, 2, 2, 2, 2, 1000, "Fast")
Slow == create_combatant(3, 2, 2, 2, 2, 0, "Slow")

Scenarios ==
    {Simulator(Identical, Identical, <<>>, <<>>, NoTerrain, NoSeed),
     Simulator(Harmless, Harmless, <<>>, <<>>, NoTerrain, NoSeed),
     Simulator(Duel, Duel, <<>>, <<>>, NoTerrain, NoSeed),
     Simulator(Blunted, Blunted, <<>>, <<>>, NoTerrain, NoSeed),
     Simulator(Fast, Slow, <<>>, <<>>, NoTerrain, NoSeed)}

Init ==
    /\ sim \in Scenarios
    /\ settings \in {"PROD", "DEBUG"}
    /\ current_state = NoState
    /\ rng = [seed |-> 0, pos |-> 0]
    /\ pc = "idle"
    /\ until = "RoundEnd"
    /\ calls = 0
    /\ outcome = NoOutcome
    /\ clock = 0
    /\ run = 1
    /\ prev = NoPrev
    /\ archive_on = FALSE
    /\ fresh = FALSE
    /\ multi = NoMulti
    /\ victim = NewCombatant("None", 0, 0, 0, 0, 0, 0)
    /\ last = NoCall
    /\ step = NoStep

Next ==
    \/ NextBattle
    \/ RunRoundCall
    \/ EndTransition

Spec == Init /\ [][Next]_vars

(***************************************************************************)
(* SpecFair: Spec with the battles explored in full, the driver loop       *)
(* running on (weak fairness) and hit rolls that hit recurring (strong     *)
(* fairness).                                                              *)
(***************************************************************************)
InitFair == Init /\ RoundsExplored(sim) = RoundCeiling

\* One pass of the loop of the driver call in progress
LoopStep ==
    \/ RunBattleReturn
    \/ StartTransition
    \/ RoundStartTransition
    \/ VelocityRollTransition
    \/ TurnStartTransition
    \/ FirepowerAttackTransition
    \/ BallisticsAttackTransition
    \/ ChemicalAttackTransition
    \/ TurnEndTransition
    \/ RoundEndTransition
    \/ EndTransition

\* An attack whose hit roll hits
HitStep ==
    /\ Looping /\ current_state.type \in AttackStateTypes
    /\ \E ready \in {apply_effects(current_state, Signal("PRE_ATTACK", NoData)).st} :
          \E base_hit \in HitRolls(rng, HitThreshold(ready)) :
             /\ calculate_hit(ready, base_hit).does_hit
             /\ \E r \in {Attack_transition(current_state, base_hit)} : Land(r)

SpecFair == InitFair /\ [][Next]_vars /\ WF_vars(LoopStep) /\ SF_vars(HitStep)

\* Every attack of either main combatant deals positive damage to either pool of the other.
DealsPositiveDamage(s) ==
    \A pair \in {<<s.main_a, s.main_b>>, <<s.main_b, s.main_a>>} :
        \A type \in AttackTypes :
            /\ modify_damage([pair[2] EXCEPT !.shields = 1], get_damage(pair[1], type), type) > 0
            /\ modify_damage([pair[2] EXCEPT !.shields = 0], get_damage(pair[1], type), type) > 0

\* C7 (End is terminal): a transition() call on an End snapshot raises, returns no
\* snapshot (the call in progress ends with the exception) and leaves the snapshot as
\* it was: its type, its combatants and its saved_states (nothing is archived).
C7_EndIsTerminal ==
    [][(pc = "run_round" /\ current_state.type = "End")
            => /\ pc' = "idle"
               /\ outcome' = [call |-> "run_round", raised |-> "Exception"]
               /\ current_state' = current_state]_vars

\* C7 witness: run_round on a finished battle has called transition() on the End
\* snapshot, whose archive holds the battle.
C7_Witness ==
    /\ pc = "idle"
    /\ outcome = [call |-> "run_round", raised |-> "Exception"]
    /\ current_state.type = "End"
    /\ Len(current_state.saved_states) > 1

\* C8 (identical combatants): whenever a battle between two hook-free combatants with
\* armor 50, shields 50, attack stats 10 and equal velocity is at End, whatever the
\* rolls were, exactly one side has armor = 0 and shields = 0, the other has
\* armor > 0, and round_count > 1.
C8_IdenticalCombatants ==
    (sim.main_a = Identical /\ sim.main_b = Identical /\ current_state.type = "End")
        => LET a == current_state.combatant_a
               b == current_state.combatant_b
           IN  /\ current_state.round_count > 1
               /\ \/ a.armor = 0 /\ a.shields = 0 /\ b.armor > 0
                  \/ b.armor = 0 /\ b.shields = 0 /\ a.armor > 0

\* C8 witness: run_battle() has returned from a battle between the identical combatants.
C8_Witness ==
    /\ sim.main_a = Identical /\ sim.main_b = Identical
    /\ pc = "idle" /\ outcome = [call |-> "run_battle", raised |-> "none"]
    /\ current_state.type = "End"

\* C10 (runaway guard): a pass of run_battle's loop that starts below the ceiling never
\* takes round_count past 300; when it takes it to 300 the call ends in the assertion
\* failure; and when run_battle() returns, the snapshot is an End with
\* round_count < 300.
C10_RunawayGuard ==
    [][(pc = "run_battle" /\ current_state.round_count < RoundCeiling)
            => /\ current_state'.round_count <= RoundCeiling
               /\ current_state'.round_count = RoundCeiling
                    => pc' = "idle"
                       /\ outcome' = [call |-> "run_battle", raised |-> "AssertionError"]
               /\ (pc' = "idle" /\ outcome'.raised = "none")
                    => current_state'.type = "End"
                       /\ current_state'.round_count < RoundCeiling]_vars

\* C10 witness: two combatants whose attacks deal 0 damage; run_battle() has ended in
\* the assertion failure at round 300.
C10_Witness ==
    /\ sim.main_a = Harmless /\ sim.main_b = Harmless
    /\ pc = "idle" /\ outcome = [call |-> "run_battle", raised |-> "AssertionError"]
    /\ current_state.round_count = RoundCeiling

\* A hit has landed in the battle: a side has lost pool.
HitLanded(st) ==
    \E c \in {st.combatant_a, st.combatant_b} :
        c.armor + c.shields < c.original_armor + c.original_shields

Powered == [create_combatant(2, 1, 2, 2, 2, 5, "Powered") EXCEPT
                !.effects = <<NewEffect("Power Up")>>]
\* combatants.py: "Last Stand" and "Flare Knives" (lcenzo), "Switcharoo" (shinigami)
Knives == [create_combatant(3, 2, 2, 2, 2, 5, "Knives") EXCEPT
                !.effects = <<NewEffect("Last Stand"), NewEffect("Flare Knives")>>]
Shifty == [create_combatant(3, 2, 1, 3, 1, 5, "Shifty") EXCEPT
                !.effects = <<NewEffect("Switcharoo")>>]
\* An add-on: its stats are merged into the main combatant, its effects appended.
Plating == [create_combatant(1, 1, 0, 0, 1, 0, "Plating") EXCEPT
                !.effects = <<NewEffect("Last Stand")>>]

\* A combatant with the two listening effects
Herald == [create_combatant(3, 2, 2, 2, 2, 5, "Herald") EXCEPT
                !.effects = <<NewEffect("Round Bell"), NewEffect("Final Bell")>>]

SeededScenarios ==
    {Simulator(Fast, Slow, <<>>, <<>>, NoTerrain, seed) : seed \in 0..MaxSeed}
    \cup {Simulator(Herald, Knives, <<>>, <<>>, NoTerrain, seed) : seed \in 0..MaxSeed}
    \cup {Simulator(Powered, Duel, <<>>, <<>>, NewTerrain("Swamp"), seed) : seed \in 0..MaxSeed}
    \cup {Simulator(Knives, Shifty, <<>>, <<>>, NewTerrain("Lake Tampua"), seed) :
                seed \in 0..MaxSeed}
    \cup {Simulator(Duel, Duel, <<Plating>>, <<>>, NoTerrain, seed) : seed \in 0..MaxSeed}
    \cup {Simulator(Duel, Shifty, <<>>, <<Plating, Plating>>, NewTerrain("Badaxsan"), seed) :
                seed \in 0..MaxSeed}

InitSeeded ==
    /\ sim \in SeededScenarios
    /\ settings \in {"PROD", "DEBUG"}
    /\ current_state = NoState
    /\ rng = [seed |-> 0, pos |-> 0]
    /\ pc = "idle"
    /\ until = "RoundEnd"
    /\ calls = 0
    /\ outcome = NoOutcome
    /\ clock = 0
    /\ run = 1
    /\ prev = NoPrev
    /\ archive_on = TRUE
    /\ fresh = FALSE
    /\ multi = NoMulti
    /\ victim = NewCombatant("None", 0, 0, 0, 0, 0, 0)
    /\ last = NoCall
    /\ step = NoStep

\* A new simulator is built once the first simulator's call has ended; it is run once.
NewSimulator(s, r) ==
    /\ prev' = [sim |-> sim, state |-> current_state, outcome |-> outcome]
    /\ sim' = s
    /\ run' = r
    /\ current_state' = NoState
    /\ rng' = [seed |-> 0, pos |-> 0]
    /\ calls' = MaxCalls - 1
    /\ outcome' = NoOutcome
    /\ UNCHANGED <<settings, pc, until, clock, archive_on, fresh, multi, victim, last, step>>

\* test_battle_determinism: sim2 = BattleSimulator(...) with the arguments of sim1
SecondSimulator ==
    /\ run = 1 /\ pc = "idle" /\ calls = 1 /\ outcome.call = "run_battle"
    /\ NewSimulator(sim, 2)

\* Mutant: the mains of the Start snapshot are the objects the battle fought with.
ArchivedStart_live(st) ==
    LET i == CHOOSE i \in 1..Len(st.saved_states) :
                /\ st.saved_states[i].type = "Start"
                /\ \A j \in 1..(i - 1) : st.saved_states[j].type # "Start"
    IN  [main_a |-> st.combatant_a, main_b |-> st.combatant_b, terrain |-> st.terrain,
         random_seed |-> st.saved_states[i].random_seed]

\* test_replay_from_saved_state: initial_state, the first Start in saved_states. Its
\* main_a, main_b and terrain are the objects every snapshot of the battle holds.
ArchivedStart(st) ==
    LET i == CHOOSE i \in 1..Len(st.saved_states) :
                /\ st.saved_states[i].type = "Start"
                /\ \A j \in 1..(i - 1) : st.saved_states[j].type # "Start"
    IN  [main_a |-> st.main_a, main_b |-> st.main_b, terrain |-> st.terrain,
         random_seed |-> st.saved_states[i].random_seed]

\* test_replay_from_saved_state: replay_simulator = BattleSimulator(main_a, main_b,
\* terrain, random_seed) of the archived Start; adds_a and adds_b take their default.
ReplaySimulator ==
    /\ run = 1 /\ pc = "idle" /\ calls = 1
    /\ outcome = [call |-> "run_battle", raised |-> "none"]
    /\ LET initial_state == ArchivedStart(current_state)
       IN  NewSimulator(Simulator(initial_state.main_a, initial_state.main_b, <<>>, <<>>,
                                  initial_state.terrain, initial_state.random_seed), 3)

\* run_battle() is called a second time on the first simulator, whose run_battle()
\* has ended: the finished battle is kept for comparison.
RunBattleAgain ==
    /\ run = 1 /\ pc = "idle" /\ calls = 1 /\ outcome.call = "run_battle"
    /\ prev' = [sim |-> sim, state |-> current_state, outcome |-> outcome]
    /\ run' = 4
    /\ IF current_state.type \in {"None", "End"}
       THEN start_battle
       ELSE UNCHANGED <<current_state, rng, clock>>
    /\ pc' = "run_battle"
    /\ calls' = calls + 1
    /\ outcome' = NoOutcome
    /\ fresh' = (current_state.type \in {"None", "End", "Start"})
    /\ UNCHANGED <<sim, settings, until, archive_on, multi, victim, last, step>>

\* run_battle() is called on the first simulator after its run_round(until) has
\* returned: the battle is carried on from the snapshot run_round kept, which is kept
\* for comparison.
RunBattleAfterRound ==
    /\ run = 1 /\ pc = "idle" /\ calls = 1
    /\ outcome = [call |-> "run_round", raised |-> "none"]
    /\ prev' = [sim |-> sim, state |-> current_state, outcome |-> outcome]
    /\ run' = 5
    /\ IF current_state.type \in {"None", "End"}
       THEN start_battle
       ELSE UNCHANGED <<current_state, rng, clock>>
    /\ pc' = "run_battle"
    /\ calls' = calls + 1
    /\ outcome' = NoOutcome
    /\ fresh' = (current_state.type \in {"None", "End", "Start"})
    /\ UNCHANGED <<sim, settings, until, archive_on, multi, victim, last, step>>

\* A simulator with the arguments of the one that was stepped and then run to its end
\* is built, to be run by run_battle() alone.
UnsteppedSimulator ==
    /\ run = 5 /\ pc = "idle" /\ outcome.call = "run_battle"
    /\ NewSimulator(sim, 6)

\* run_round() is called again, with the default until, on the first simulator whose
\* first run_round has returned at a RoundEnd with both combatants alive; the snapshot
\* the first call left is kept for comparison.
RunRoundAgain ==
    /\ run = 1 /\ pc = "idle" /\ calls = 1
    /\ outcome = [call |-> "run_round", raised |-> "none"]
    /\ current_state.type = "RoundEnd" /\ ~had_someone_died(current_state)
    /\ prev' = [sim |-> sim, state |-> current_state, outcome |-> outcome]
    /\ run' = 7
    /\ until' = "RoundEnd"
    /\ pc' = "run_round"
    /\ calls' = calls + 1
    /\ outcome' = NoOutcome
    /\ fresh' = FALSE
    /\ UNCHANGED <<sim, settings, current_state, rng, clock, archive_on, multi, victim,
                   last, step>>

NextSeeded ==
    \/ NextBattle
    \/ RunRoundCall
    \/ EndTransition
    \/ SecondSimulator
    \/ ReplaySimulator
    \/ RunBattleAgain
    \/ RunBattleAfterRound
    \/ UnsteppedSimulator
    \/ RunRoundAgain

SpecSeeded == InitSeeded /\ [][NextSeeded]_vars

\* (armor, shields) of both sides
FinalPools(st) ==
    <<st.combatant_a.armor, st.combatant_a.shields,
      st.combatant_b.armor, st.combatant_b.shields>>

\* The archived snapshots of a battle hold the combatants of the live snapshot, so the
\* armor and shields read from any entry of saved_states are those of FinalPools; an
\* entry's own record is its phase type and round_count.
SameHistory(st1, st2) ==
    /\ Len(st1.saved_states) = Len(st2.saved_states)
    /\ \A i \in 1..Len(st1.saved_states) :
            /\ st1.saved_states[i].type = st2.saved_states[i].type
            /\ st1.saved_states[i].round_count = st2.saved_states[i].round_count

\* The second simulator's run_battle() has ended.
SecondRunEnded(r) ==
    run = r /\ pc = "idle" /\ outcome.call = "run_battle"

Replayed ==
    /\ outcome.raised = "none"
    /\ current_state.type = "End"
    /\ current_state.round_count = prev.state.round_count
    /\ FinalPools(current_state) = FinalPools(prev.state)
    /\ SameHistory(prev.state, current_state)

\* C2 as stated (replayability): a simulator built from main_a, main_b, terrain and
\* random_seed of the archived Start snapshot of a finished battle and run with
\* run_battle() ends as the original did.
C2_Replay ==
    SecondRunEnded(3) => Replayed

\* C2 (replayability, amended): the replay ends as the original did when the original
\* simulator was configured without add-ons (the four fields taken from the Start
\* snapshot leave adds_a and adds_b out).
C2_ReplayWithoutAddOns ==
    (SecondRunEnded(3) /\ prev.sim.adds_a = <<>> /\ prev.sim.adds_b = <<>>) => Replayed

\* C2 witness: the replay of a battle without add-ons, with a terrain that triggered
\* and an effect that triggered, has ended.
C2_Witness ==
    /\ SecondRunEnded(3)
    /\ prev.sim.adds_a = <<>> /\ prev.sim.adds_b = <<>>
    /\ prev.state.round_count > 1
    /\ current_state.terrain.triggered
    /\ \E i \in 1..Len(current_state.combatant_a.effects) :
            current_state.combatant_a.effects[i].trigger_count > 0

(***************************************************************************)
(* SpecDamage: apply_damage called repeatedly on one combatant             *)
(***************************************************************************)
Pools == 0..MaxPool
Amounts == (0 - NegAmount)..MaxAmount
\* The modifier dicts tried: no key, or one key with a negative or positive value.
ModifierDicts ==
    {EmptyDict} \cup {(t :> m) : t \in AttackTypes, m \in {0 - ModMag, ModMag}}

\* The simulator is not used by SpecDamage.
NoSimulator ==
    /\ sim = NoSim
    /\ settings = "PROD"
    /\ current_state = NoState
    /\ rng = [seed |-> 0, pos |-> 0]
    /\ pc = "idle"
    /\ until = "RoundEnd"
    /\ calls = 0
    /\ outcome = NoOutcome
    /\ clock = 0
    /\ run = 1
    /\ prev = NoPrev
    /\ archive_on = FALSE
    /\ fresh = FALSE
    /\ multi = NoMulti

InitDamage ==
    /\ NoSimulator
    /\ \E armor \in Pools, shields \in Pools, am \in ModifierDicts, sm \in ModifierDicts :
          victim = [NewCombatant("Test Combatant", armor, shields, 10, 20, 30, 40)
                        EXCEPT !.armor_modifiers = am, !.shield_modifiers = sm]
    /\ last = NoCall
    /\ step = NoStep

\* c.apply_damage(damage, damage_type), as the tests of test_combatant.py call it.
ApplyDamageCall ==
    \E damage \in Amounts, damage_type \in AttackTypes :
        LET r == apply_damage(victim, damage, damage_type)
        IN  /\ victim' = r.c
            /\ last' = [called |-> TRUE, damage |-> damage, damage_type |-> damage_type,
                        armor |-> victim.armor, shields |-> victim.shields,
                        applied |-> r.applied]
            /\ UNCHANGED battleVars

NextDamage == ApplyDamageCall

SpecDamage == InitDamage /\ [][NextDamage]_vars

\* C3 (non-negativity): after any sequence of apply_damage calls with damage >= 0 on a
\* combatant that started with armor >= 0 and shields >= 0, armor >= 0 and shields >= 0.
\* (Negative amounts are tried too; modify_damage floors them at zero.)
C3_NonNegative ==
    victim.armor >= 0 /\ victim.shields >= 0

\* C3 witness: a call whose modified damage exceeded the pool it hit left that pool at 0.
C3_Witness ==
    /\ last.called
    /\ last.damage > last.armor + last.shields
    /\ last.shields = 0 /\ last.armor > 0
    /\ victim.armor = 0

\* C4 (pool ordering): one call touches one pool. With shields > 0 before the call the
\* armor is unchanged and the shields do not grow; with shields = 0 before the call the
\* shields stay 0 and the armor does not grow.
C4_PoolOrdering ==
    last.called =>
        /\ last.shields > 0 => (victim.armor = last.armor /\ victim.shields <= last.shields)
        /\ last.shields = 0 => (victim.shields = 0 /\ victim.armor <= last.armor)

\* C4 witness: Ballistics damage larger than the remaining shields emptied the shields
\* and left the armor as it was: the excess is discarded.
C4_Witness ==
    /\ last.called
    /\ last.damage_type = "Ballistics"
    /\ victim.shield_modifiers = EmptyDict
    /\ last.shields > 0 /\ last.damage > last.shields
    /\ victim.shields = 0 /\ victim.armor = last.armor /\ victim.armor > 0

\* The reference of claim C5, written from the claim's words: multiplier by type and by
\* whether shields > 0, then the flat modifier of the pool that is up (0 when the key is
\* absent), then max(0, .).
C5_Multiplied(shields, amount, type) ==
    CASE type = "Firepower" /\ shields > 0 -> 2 * amount
      [] type = "Firepower" /\ ~(shields > 0) -> amount \div 2
      [] type = "Chemical" /\ shields > 0 -> amount \div 2
      [] type = "Chemical" /\ ~(shields > 0) -> 2 * amount
      [] type = "Ballistics" -> amount

C5_Flat(c, type) ==
    LET d == IF c.shields > 0 THEN c.shield_modifiers ELSE c.armor_modifiers
    IN  IF type \in DOMAIN d THEN d[type] ELSE 0

C5_Reference(c, amount, type) ==
    LET r == C5_Multiplied(c.shields, amount, type) + C5_Flat(c, type)
    IN  IF r < 0 THEN 0 ELSE r

\* C5: modify_damage(amount, type) equals the reference for every amount and type, on
\* every combatant SpecDamage reaches.
C5_ModifyDamageMatchesReference ==
    \A amount \in Amounts, type \in AttackTypes :
        modify_damage(victim, amount, type) = C5_Reference(victim, amount, type)

\* C5 witness: a combatant whose shields are down and whose armor_modifiers has a
\* negative Firepower entry: an odd Firepower amount is halved (floor) and then reduced.
C5_Witness ==
    /\ last.called
    /\ victim.shields = 0
    /\ "Firepower" \in DOMAIN victim.armor_modifiers
    /\ victim.armor_modifiers["Firepower"] < 0
    /\ modify_damage(victim, 3, "Firepower") = 0
    /\ modify_damage(victim, 3, "Chemical") = 6

\* C6: the value apply_damage returns is the pool reduction, (armor + shields before)
\* minus (armor + shields after), which is min(modified damage, pool that was hit).
C6_ReturnsPoolReduction ==
    last.called =>
        LET before == [victim EXCEPT !.armor = last.armor, !.shields = last.shields]
            hit == IF last.shields > 0 THEN last.shields ELSE last.armor
        IN  /\ last.applied = (last.armor + last.shields) - (victim.armor + victim.shields)
            /\ last.applied = Min(modify_damage(before, last.damage, last.damage_type), hit)

\* C6 witness: the modified damage exceeded the pool, and the pool size was returned.
C6_Witness ==
    /\ last.called
    /\ last.shields > 0
    /\ last.damage_type = "Ballistics" /\ victim.shield_modifiers = EmptyDict
    /\ last.damage > last.shields
    /\ last.applied = last.shields

(***************************************************************************)
(* SpecRound: configured seeds, the archive recorded. start_battle(),      *)
(* run_round(until) and run_battle() are called on one simulator, as       *)
(* test_velocity_roll, test_effect_triggering and test_terrain_effects     *)
(* call them; some hooks raise.                                            *)
(***************************************************************************)
\* BattleSimulator.start_battle() is called (both combatants are loaded).
StartBattleCall ==
    /\ pc = "idle" /\ calls < MaxCalls
    /\ start_battle
    /\ calls' = calls + 1
    /\ outcome' = [call |-> "start_battle", raised |-> "none"]
    /\ UNCHANGED <<sim, settings, pc, until, run, prev, archive_on, fresh, multi,
                   victim, last, step>>

\* A combatant whose first effect's action raises on ROUND_START, followed by "Power Up"
Flaky == [create_combatant(2, 1, 2, 2, 2, 5, "Flaky") EXCEPT
                !.effects = <<NewEffect("Borked"), NewEffect("Power Up")>>]
\* A combatant whose first effect's condition raises on ROUND_START
Stuck == [create_combatant(2, 1, 2, 2, 2, 5, "Stuck") EXCEPT
                !.effects = <<NewEffect("Jammed"), NewEffect("Power Up")>>]

RoundScenarios ==
    {Simulator(Powered, Duel, <<>>, <<>>, NoTerrain, seed) : seed \in 0..MaxSeed}
    \cup {Simulator(Duel, Powered, <<>>, <<>>, NewTerrain("Swamp"), seed) : seed \in 0..MaxSeed}
    \cup {Simulator(Fast, Slow, <<>>, <<>>, NoTerrain, seed) : seed \in 0..MaxSeed}
    \cup {Simulator(Flaky, Duel, <<>>, <<>>, NewTerrain("Swamp"), seed) : seed \in 0..MaxSeed}
    \cup {Simulator(Duel, Stuck, <<>>, <<>>, NoTerrain, seed) : seed \in 0..MaxSeed}
    \cup {Simulator(Duel, Powered, <<>>, <<>>, NewTerrain("Ruthenian Grasses"), seed) :
                seed \in 0..MaxSeed}

InitRound ==
    /\ sim \in RoundScenarios
    /\ settings \in {"PROD", "DEBUG"}
    /\ current_state = NoState
    /\ rng = [seed |-> 0, pos |-> 0]
    /\ pc = "idle"
    /\ until = "RoundEnd"
    /\ calls = 0
    /\ outcome = NoOutcome
    /\ clock = 0
    /\ run = 1
    /\ prev = NoPrev
    /\ archive_on = TRUE
    /\ fresh = FALSE
    /\ multi = NoMulti
    /\ victim = NewCombatant("None", 0, 0, 0, 0, 0, 0)
    /\ last = NoCall
    /\ step = NoStep

NextRound ==
    \/ StartBattleCall
    \/ NextBattle
    \/ RunRoundCall
    \/ EndTransition

SpecRound == InitRound /\ [][NextRound]_vars

\* How many effects of a combatant have the given name
CountEffects(c, name) ==
    Cardinality({i \in 1..Len(c.effects) : c.effects[i].name = name})

\* run_round() has returned from a call that began on a freshly started battle and
\* ran to the end of the round.
RoundRun ==
    /\ pc = "idle" /\ outcome = [call |-> "run_round", raised |-> "none"]
    /\ fresh /\ current_state.type = "RoundEnd"

\* C11 (ROUND_START once a round): after start_battle() and one run_round() every
\* hook whose condition is "the signal is ROUND_START" has run exactly once: each
\* "Power Up" effect has trigger_count 1 and side A's firepower is its base plus 10
\* for each "Power Up" it carries; the "Swamp" terrain has triggered and each
\* velocity is its base less 5 (not below 0).
C11_RoundStartOnce ==
    RoundRun
        => /\ current_state.round_count = 1
           /\ \A c \in {current_state.combatant_a, current_state.combatant_b} :
                \A i \in 1..Len(c.effects) :
                    c.effects[i].name = "Power Up" => c.effects[i].trigger_count = 1
           /\ current_state.combatant_a.firepower
                = sim.main_a.firepower + 10 * CountEffects(sim.main_a, "Power Up")
           /\ current_state.combatant_b.firepower = sim.main_b.firepower
           /\ current_state.terrain.name = "Swamp"
                => /\ current_state.terrain.triggered
                   /\ current_state.combatant_a.velocity = Max(sim.main_a.velocity - 5, 0)
                   /\ current_state.combatant_b.velocity = Max(sim.main_b.velocity - 5, 0)

\* C11 witness: start_battle() and run_round() have been called on a simulator whose
\* side A carries "Power Up"; the effect has fired.
C11_Witness ==
    /\ RoundRun /\ calls = 2
    /\ sim.main_a = Powered
    /\ current_state.combatant_a.firepower = Powered.firepower + 10

\* run_round's stop condition holds of the current snapshot:
\* isinstance(self.current_state, (until, RoundEnd))
StopConditionMet ==
    IsInstance(current_state.type, until) \/ current_state.type = "RoundEnd"

\* C12 (run_round stops at the first T or RoundEnd): while run_round(until=T), begun on
\* a freshly started battle, is in progress and the current snapshot is neither a T
\* nor a RoundEnd, the call goes on (or raises); at the first snapshot that is one,
\* the call ends and leaves current_state at that snapshot, a TurnStart with the
\* a_is_attacking it was built with.
C12_StopsAtFirstMatch ==
    [][(pc = "run_round" /\ fresh)
            => IF StopConditionMet
               THEN /\ pc' = "idle"
                    /\ current_state'.type = current_state.type
                    /\ current_state.type = "TurnStart"
                        => current_state'.a_is_attacking = current_state.a_is_attacking
               ELSE pc' = "run_round" \/ outcome'.raised # "none"]_vars

\* C12 witness: test_velocity_roll. start_battle() and run_round(until=TurnStart) have
\* been called on Fast against Slow; the snapshot is the TurnStart, side A attacking.
C12_Witness ==
    /\ pc = "idle" /\ outcome = [call |-> "run_round", raised |-> "none"]
    /\ fresh /\ calls = 2
    /\ sim.main_a = Fast /\ sim.main_b = Slow
    /\ current_state.type = "TurnStart" /\ current_state.a_is_attacking
    /\ current_state.round_count = 1

\* C13 as stated (one more transition only when stopped early): when run_round's loop
\* has stopped at the caller's intermediate phase, one transition() call follows (the
\* snapshot is archived once more); when it has stopped at RoundEnd, none does (the
\* archive stays as it is).
C13_ExtraTransitionOnlyWhenEarly ==
    [][(pc = "run_round" /\ StopConditionMet /\ current_state.type # "End")
            => IF current_state.type = "RoundEnd"
               THEN current_state'.saved_states = current_state.saved_states
               ELSE Len(current_state'.saved_states) = Len(current_state.saved_states) + 1]_vars

\* C13 witness: start_battle() and run_round() have been called; the loop stopped at
\* RoundEnd and the transition made after it has archived the RoundEnd snapshot.
C13_Witness ==
    /\ RoundRun /\ calls = 2
    /\ Len(current_state.saved_states) > 0
    /\ \E i \in 1..Len(current_state.saved_states) :
            current_state.saved_states[i].type = "RoundEnd"

\* Rolls of rng.randint(1, 1000): the ends of the range, their neighbours and the middle
RollSamples ==
    {VelocityRollMin, VelocityRollMin + 1, (VelocityRollMin + VelocityRollMax) \div 2,
     VelocityRollMax - 1, VelocityRollMax}

\* C14 (velocity roll): for every pair of rolls in [1, 1000], VelocityRoll's transition
\* returns a TurnStart whose a_is_attacking is velocity_a + roll_a >= velocity_b +
\* roll_b (a tie goes to side A) and whose has_a_finished_their_turn and
\* has_b_finished_their_turn are false; with velocity_a - velocity_b >= 999 side A
\* attacks first whatever the rolls.
C14_VelocityRoll ==
    (Looping /\ current_state.type = "VelocityRoll")
        => \A roll_a \in RollSamples, roll_b \in RollSamples :
              \A r \in {VelocityRoll_transition(current_state, roll_a, roll_b)} :
                 LET total_a == r.self.combatant_a.velocity + roll_a
                     total_b == r.self.combatant_b.velocity + roll_b
                 IN  /\ r.raised = "none"
                     /\ r.next.type = "TurnStart"
                     /\ r.next.a_is_attacking = (total_a >= total_b)
                     /\ ~r.next.has_a_finished_their_turn
                     /\ ~r.next.has_b_finished_their_turn
                     /\ (r.self.combatant_a.velocity - r.self.combatant_b.velocity >= 999)
                            => r.next.a_is_attacking

\* C14 witness: a TurnStart has been produced for Fast (velocity 1000) against Slow
\* (velocity 0), side A attacking, and the two velocities of another pair are equal,
\* so that equal rolls tie.
C14_Witness ==
    /\ current_state.type = "TurnStart"
    /\ sim.main_a = Fast /\ sim.main_b = Slow
    /\ current_state.a_is_attacking
    /\ ~current_state.has_a_finished_their_turn /\ ~current_state.has_b_finished_their_turn
    /\ \E s \in RoundScenarios : s.main_a.velocity = s.main_b.velocity

(***************************************************************************)
(* SpecMulti: run_multiple_battles(num_battles) on one simulator. The      *)
(* battles are the run_battle() calls of its loop; between two of them the *)
(* call is at the head of the loop (pc = "run_multiple_battles").          *)
(***************************************************************************)
\* BattleSimulator.run_multiple_battles(num_battles) is called with both combatants
\* loaded.
RunMultipleBattlesCall ==
    /\ pc = "idle" /\ ~multi.active /\ calls < MaxCalls
    /\ \E num_battles \in 1..MaxBattles :
          multi' = [NoMulti EXCEPT !.active = TRUE, !.n = num_battles]
    /\ pc' = "run_multiple_battles"
    /\ calls' = calls + 1
    /\ outcome' = NoOutcome
    /\ UNCHANGED <<sim, settings, current_state, rng, until, clock, run, prev, archive_on,
                   fresh, victim, last, step>>

\* for _ in range(num_battles): self.run_battle() -- the call is entered: a simulator
\* without a snapshot, or with an End, starts a battle.
MultiRunBattle ==
    /\ pc = "run_multiple_battles" /\ multi.begun < multi.n
    /\ IF current_state.type \in {"None", "End"}
       THEN /\ start_battle
            /\ multi' = [multi EXCEPT !.begun = @ + 1, !.seeds = Append(@, rng'.seed)]
       ELSE /\ UNCHANGED <<current_state, rng, clock>>
            /\ multi' = [multi EXCEPT !.begun = @ + 1]
    /\ pc' = "run_battle"
    /\ outcome' = NoOutcome
    /\ fresh' = (current_state.type \in {"None", "End", "Start"})
    /\ UNCHANGED <<sim, settings, until, calls, run, prev, archive_on, victim, last, step>>

\* Mutant: the except clause raises the exception again in every mode.
MultiTally_strict ==
    /\ multi.active /\ pc = "idle" /\ outcome.call = "run_battle"
    /\ IF outcome.raised = "none"
       THEN /\ multi' = [multi EXCEPT
                  !.total_rounds = @ + current_state.round_count,
                  !.combatant_b = IF /\ is_dead(current_state.combatant_a)
                                     /\ ~is_dead(current_state.combatant_b)
                                  THEN @ + 1 ELSE @,
                  !.combatant_a = IF /\ ~is_dead(current_state.combatant_a)
                                     /\ is_dead(current_state.combatant_b)
                                  THEN @ + 1 ELSE @]
            /\ pc' = "run_multiple_battles"
            /\ outcome' = NoOutcome
            /\ UNCHANGED until
       ELSE /\ multi' = [multi EXCEPT !.active = FALSE, !.caught = outcome.raised]
            /\ Ended("run_multiple_battles", outcome.raised)
    /\ UNCHANGED <<sim, settings, current_state, rng, calls, clock, run, prev, archive_on,
                   fresh, victim, last, step>>

\* run_battle() has returned or raised inside the loop of run_multiple_battles. After
\* a return the battle is tallied: total_rounds grows by round_count, and a side wins
\* when the other is dead and it is not. An exception goes to the except clause: the
\* results so far are reported, and it is raised again in debug mode only; otherwise
\* the call returns results, total_rounds / num_battles.
MultiTally ==
    /\ multi.active /\ pc = "idle" /\ outcome.call = "run_battle"
    /\ IF outcome.raised = "none"
       THEN /\ multi' = [multi EXCEPT
                  !.total_rounds = @ + current_state.round_count,
                  !.combatant_b = IF /\ is_dead(current_state.combatant_a)
                                     /\ ~is_dead(current_state.combatant_b)
                                  THEN @ + 1 ELSE @,
                  !.combatant_a = IF /\ ~is_dead(current_state.combatant_a)
                                     /\ is_dead(current_state.combatant_b)
                                  THEN @ + 1 ELSE @]
            /\ pc' = "run_multiple_battles"
            /\ outcome' = NoOutcome
            /\ UNCHANGED until
       ELSE /\ multi' = [multi EXCEPT !.active = FALSE, !.caught = outcome.raised]
            /\ Ended("run_multiple_battles",
                     IF settings = "DEBUG" THEN outcome.raised ELSE "none")
    /\ UNCHANGED <<sim, settings, current_state, rng, calls, clock, run, prev, archive_on,
                   fresh, victim, last, step>>

\* The loop of run_multiple_battles is done: return results, total_rounds / num_battles
MultiReturn ==
    /\ pc = "run_multiple_battles" /\ multi.begun = multi.n
    /\ multi' = [multi EXCEPT !.active = FALSE]
    /\ Ended("run_multiple_battles", "none")
    /\ UNCHANGED <<sim, settings, current_state, rng, calls, clock, run, prev, archive_on,
                   fresh, victim, last, step>>

\* combatants.py "Flare Knives" on a combatant whose attacks deal nothing
Bladed == [create_combatant(1, 0, 0, 0, 0, 5, "Bladed") EXCEPT
                !.effects = <<NewEffect("Flare Knives")>>]
\* "Flare Knives" and a Firepower of 1, which halved against armor deals nothing
Edge == [create_combatant(2, 1, 0, 0, 1, 5, "Edge") EXCEPT
                !.effects = <<NewEffect("Flare Knives")>>]
\* Shields that the first knife leaves at 1, and armor that nine knives break and
\* eight do not.
Anvil == create_combatant(60, 31, 0, 0, 0, 5, "Anvil")

MultiScenarios ==
    {Simulator(Duel, Duel, <<>>, <<>>, NoTerrain, seed) : seed \in 0..MaxSeed}
    \cup {Simulator(Bladed, Bladed, <<>>, <<>>, NoTerrain, seed) : seed \in {NoSeed, 0}}
    \cup {Simulator(Edge, Anvil, <<>>, <<>>, NoTerrain, seed) : seed \in {NoSeed, 1}}
    \cup {Simulator(Flaky, Duel, <<>>, <<>>, NoTerrain, 2)}
    \cup {Simulator(Duel, Powered, <<>>, <<>>, NewTerrain("Ruthenian Grasses"), 0)}

InitMulti ==
    /\ sim \in MultiScenarios
    /\ settings \in {"PROD", "DEBUG"}
    /\ current_state = NoState
    /\ rng = [seed |-> 0, pos |-> 0]
    /\ pc = "idle"
    /\ until = "RoundEnd"
    /\ calls = 0
    /\ outcome = NoOutcome
    /\ clock = 0
    /\ run = 1
    /\ prev = NoPrev
    /\ archive_on = FALSE
    /\ fresh = FALSE
    /\ multi = NoMulti
    /\ victim = NewCombatant("None", 0, 0, 0, 0, 0, 0)
    /\ last = NoCall
    /\ step = NoStep

NextMulti ==
    \/ RunMultipleBattlesCall
    \/ MultiRunBattle
    \/ MultiTally
    \/ MultiReturn
    \/ RunBattleReturn
    \/ StartTransition
    \/ RoundStartTransition
    \/ VelocityRollTransition
    \/ TurnStartTransition
    \/ FirepowerAttackTransition
    \/ BallisticsAttackTransition
    \/ ChemicalAttackTransition
    \/ TurnEndTransition
    \/ RoundEndTransition

SpecMulti == InitMulti /\ [][NextMulti]_vars

\* run_multiple_battles has returned or raised.
MultiEnded == pc = "idle" /\ outcome.call = "run_multiple_battles"

\* C15 (tallies sum to n): when run_multiple_battles(n), n >= 1, has returned and no
\* battle of it raised, the win tallies satisfy combatant_a + combatant_b = n.
C15_TalliesSumToN ==
    (MultiEnded /\ outcome.raised = "none" /\ multi.caught = "none")
        => multi.combatant_a + multi.combatant_b = multi.n

\* C15 witness: a call for two battles has returned, no battle raised, and the last
\* battle ended with both combatants dead.
C15_Witness ==
    /\ MultiEnded /\ outcome.raised = "none" /\ multi.caught = "none"
    /\ multi.n = 2 /\ multi.begun = 2
    /\ current_state.type = "End"
    /\ is_dead(current_state.combatant_a) /\ is_dead(current_state.combatant_b)

\* C16 (fresh seeds): the battles one run_multiple_battles call starts are seeded
\* pairwise differently, in either mode and with or without a configured random_seed.
C16_FreshSeeds ==
    \A i \in 1..Len(multi.seeds), j \in 1..Len(multi.seeds) :
        i < j => multi.seeds[i] # multi.seeds[j]

\* C16 witness: a call has started two battles in normal mode on a simulator with a
\* configured random_seed, and has returned.
C16_Witness ==
    /\ MultiEnded /\ settings = "PROD" /\ sim.random_seed # NoSeed
    /\ Len(multi.seeds) = 2

\* A battle of the run_multiple_battles call in progress has raised.
BattleRaised ==
    multi.active /\ pc = "idle" /\ outcome.call = "run_battle" /\ outcome.raised # "none"

\* C17 (a battle raising inside run_multiple_battles): the exception is caught; the
\* call ends at once, raising it again in debug mode and returning normally in normal
\* mode; the tallies and total_rounds are those of the battles completed before it.
C17_CaughtAndReported ==
    /\ [][BattleRaised =>
            /\ pc' = "idle" /\ outcome'.call = "run_multiple_battles"
            /\ outcome'.raised = (IF settings = "DEBUG" THEN outcome.raised ELSE "none")
            /\ multi'.caught = outcome.raised
            /\ multi'.combatant_a = multi.combatant_a
            /\ multi'.combatant_b = multi.combatant_b
            /\ multi'.total_rounds = multi.total_rounds]_vars
    /\ [](BattleRaised => multi.combatant_a + multi.combatant_b <= multi.begun - 1)
    /\ []((MultiEnded /\ outcome.raised # "none")
            => settings = "DEBUG" /\ multi.caught = outcome.raised)

\* C17 witness: in normal mode a first battle was won by side A in ten rounds, the
\* second raised the round-count AssertionError, and the call returned with that win
\* and those rounds.
C17_Witness ==
    /\ MultiEnded /\ settings = "PROD"
    /\ multi.caught = "AssertionError" /\ outcome.raised = "none"
    /\ multi.begun = 2
    /\ multi.combatant_a = 1 /\ multi.combatant_b = 0 /\ multi.total_rounds = 10

\* The effects of a combatant whose condition or action raises on ROUND_START
RaisingEffects(c) ==
    {i \in 1..Len(c.effects) : c.effects[i].name \in {"Borked", "Jammed"}}

\* The "Power Up" effects of a combatant
PowerUps(c) ==
    {i \in 1..Len(c.effects) : c.effects[i].name = "Power Up"}

\* A driver loop is about to call transition() on a RoundStart snapshot one of whose
\* combatants carries an effect that raises (and no terrain that raises).
RaiserAtRoundStart ==
    /\ Looping /\ current_state.type = "RoundStart"
    /\ RaisingEffects(current_state.combatant_a) \cup RaisingEffects(current_state.combatant_b) # {}

\* C18 (an effect raising): in normal mode the exception of an effect's condition or
\* action does not leave apply_effects: the transition returns, the effect's
\* trigger_count is not incremented, the hooks after it for the signal run (each
\* "Power Up" counts a trigger, and side A's raises its firepower by 10) and the loop
\* goes on to VelocityRoll; in debug mode the exception leaves the transition and
\* ends the call, and the hooks after the effect do not run.
C18_EffectRaising ==
    [][RaiserAtRoundStart =>
        LET a == current_state.combatant_a
            b == current_state.combatant_b
        IN  IF settings = "PROD"
            THEN /\ outcome'.raised = "none"
                 /\ \A i \in RaisingEffects(a) : current_state'.combatant_a.effects[i].trigger_count = 0
                 /\ \A i \in RaisingEffects(b) : current_state'.combatant_b.effects[i].trigger_count = 0
                 /\ \A i \in PowerUps(a) :
                        current_state'.combatant_a.effects[i].trigger_count
                            = a.effects[i].trigger_count + 1
                 /\ \A i \in PowerUps(b) :
                        current_state'.combatant_b.effects[i].trigger_count
                            = b.effects[i].trigger_count + 1
                 /\ current_state'.combatant_a.firepower
                        = a.firepower + 10 * Cardinality(PowerUps(a))
                 /\ (pc' = pc => current_state'.type = "VelocityRoll")
            ELSE /\ pc' = "idle"
                 /\ outcome'.raised = "Exception"
                 /\ current_state'.type = "RoundStart"
                 /\ \A i \in RaisingEffects(a) : current_state'.combatant_a.effects[i].trigger_count = 0
                 /\ \A i \in RaisingEffects(b) : current_state'.combatant_b.effects[i].trigger_count = 0
                 /\ \A i \in PowerUps(a) :
                        current_state'.combatant_a.effects[i] = a.effects[i]
                 /\ \A i \in PowerUps(b) :
                        current_state'.combatant_b.effects[i] = b.effects[i]]_vars

\* C18 witness: in normal mode a battle whose side A carries an effect that raises on
\* every ROUND_START has run to its End; that effect never counted a trigger and the
\* "Power Up" after it did.
C18_Witness ==
    /\ settings = "PROD" /\ pc = "idle"
    /\ outcome = [call |-> "run_battle", raised |-> "none"]
    /\ current_state.type = "End" /\ current_state.round_count >= 1
    /\ RaisingEffects(current_state.combatant_a) # {}
    /\ \A i \in RaisingEffects(current_state.combatant_a) :
            current_state.combatant_a.effects[i].trigger_count = 0
    /\ \E i \in PowerUps(current_state.combatant_a) :
            current_state.combatant_a.effects[i].trigger_count = current_state.round_count

\* A driver loop is about to call transition() on the Start snapshot of a battle on
\* the Ruthenian Grasses, whose effect raises on BATTLE_START.
RaisingTerrainAtStart ==
    /\ Looping /\ current_state.type = "Start"
    /\ current_state.terrain.name = "Ruthenian Grasses"

\* C19 (a terrain raising): in normal mode the exception of a terrain's effect does
\* not leave apply_effects: the transition returns, the call in progress does not end
\* with the exception, the terrain is not marked triggered and the loop goes on to
\* RoundStart.
C19_TerrainRaisingRecovered ==
    [][(RaisingTerrainAtStart /\ settings = "PROD")
        => /\ outcome'.raised = "none"
           /\ ~current_state'.terrain.triggered
           /\ (pc' = pc => current_state'.type = "RoundStart")]_vars

\* C19 witness: in normal mode run_battle() was ended by the AssertionError of the
\* terrain's effect, with the snapshot still the Start and the terrain not triggered.
C19_Witness ==
    /\ settings = "PROD" /\ pc = "idle"
    /\ outcome = [call |-> "run_battle", raised |-> "AssertionError"]
    /\ current_state.type = "Start"
    /\ current_state.terrain.name = "Ruthenian Grasses"
    /\ ~current_state.terrain.triggered

\* The second run_battle() on the first simulator, made after a battle that ended, is
\* in progress or has ended.
SecondBattle == run = 4 /\ prev.outcome.raised = "none"

PermittedSuccessors(type) ==
    CASE type = "Start" -> {"RoundStart"}
      [] type = "RoundStart" -> {"VelocityRoll"}
      [] type = "VelocityRoll" -> {"TurnStart"}
      [] type = "TurnStart" -> {"FirepowerAttack"}
      [] type = "FirepowerAttack" -> {"BallisticsAttack", "TurnEnd"}
      [] type = "BallisticsAttack" -> {"ChemicalAttack", "TurnEnd"}
      [] type = "ChemicalAttack" -> {"TurnEnd"}
      [] type = "TurnEnd" -> {"TurnStart", "RoundEnd"}
      [] type = "RoundEnd" -> {"RoundStart", "End"}
      [] OTHER -> {}

\* A driver loop is about to call transition() on a snapshot that is not an End.
TransitionDue == Looping /\ current_state.type # "End"

\* run_battle() was the first call made on the simulator and has returned.
BattleRunFromScratch ==
    pc = "idle" /\ calls = 1 /\ outcome = [call |-> "run_battle", raised |-> "none"]

\* C21 (history): every transition() appends one archived copy of the snapshot it is
\* called on, as it is before the transition, and leaves the entries before it as
\* they are; an End appends itself once when it is built. So when run_battle()
\* returns, the first entry of saved_states is a Start, the last entry is an End and
\* no other is, each other entry is the snapshot of one transition, and consecutive
\* entries follow the phase graph.
C21_History ==
    /\ [][TransitionDue =>
            LET old == current_state.saved_states
                new == current_state'.saved_states
            IN  /\ Len(new) > Len(old)
                /\ SubSeq(new, 1, Len(old)) = old
                /\ new[Len(old) + 1] = Archived(current_state)
                /\ IF current_state'.type = "End"
                   THEN Len(new) = Len(old) + 2 /\ new[Len(new)] = Archived(current_state')
                   ELSE Len(new) = Len(old) + 1]_vars
    /\ [](BattleRunFromScratch =>
            LET h == current_state.saved_states
            IN  /\ current_state.type = "End"
                /\ Len(h) >= 2
                /\ h[1].type = "Start"
                /\ h[Len(h)].type = "End" /\ h[Len(h)].archived_copy
                /\ \A i \in 1..(Len(h) - 1) :
                        /\ h[i].type # "End"
                        /\ h[i + 1].type \in PermittedSuccessors(h[i].type))

\* C21 witness: run_battle() has returned after a battle of more than one round, with
\* its history.
C21_Witness ==
    /\ BattleRunFromScratch
    /\ current_state.round_count >= 2
    /\ Len(current_state.saved_states) > 2 * Cardinality(PhaseTypes)
    /\ current_state.saved_states[1].type = "Start"

\* saved_states[i].combatant_a and .combatant_b of snapshot st: save_state builds the
\* archived entry from the dump of the fields, and the Combatant instances in the dump
\* are taken over as they are, so the entry holds the combatants of the live snapshot.
ArchivedCombatants(st, i) ==
    [combatant_a |-> st.combatant_a, combatant_b |-> st.combatant_b]

\* (armor, shields) of both sides as read from the i-th entry of saved_states
ArchivedPools(st, i) ==
    LET entry == ArchivedCombatants(st, i)
    IN  <<entry.combatant_a.armor, entry.combatant_a.shields,
          entry.combatant_b.armor, entry.combatant_b.shields>>

\* C22 (an archived snapshot is an immutable copy): the armor and shields read from
\* an entry of saved_states, and the other stats of its combatants, are not changed
\* by a later transition.
C22_ArchivedCopyImmutable ==
    [][TransitionDue =>
        \A i \in 1..Len(current_state.saved_states) :
            /\ ArchivedPools(current_state', i) = ArchivedPools(current_state, i)
            /\ ArchivedCombatants(current_state', i) = ArchivedCombatants(current_state, i)]_vars

\* C22 witness: a battle has ended with a death, and the Start entry of its history
\* reads the final armor of the dead side, not the armor the battle began with.
C22_Witness ==
    /\ BattleRunFromScratch /\ current_state.type = "End"
    /\ current_state.saved_states[1].type = "Start"
    /\ \/ /\ ArchivedPools(current_state, 1)[1] = 0
          /\ MergeAdds(sim.main_a, sim.adds_a, 1).armor > 0
       \/ /\ ArchivedPools(current_state, 1)[3] = 0
          /\ MergeAdds(sim.main_b, sim.adds_b, 1).armor > 0

\* round_count and the turn flags of a snapshot
StructuralFields(st) ==
    <<st.round_count, st.a_is_attacking, st.has_a_finished_their_turn,
      st.has_b_finished_their_turn>>

\* run_round is about to make the transition after its loop: current_state stays the
\* snapshot the transition is called on.
TransitionOnKeptSnapshot ==
    pc = "run_round" /\ StopConditionMet /\ current_state.type # "End"

\* C23 (structural fields): a transition leaves round_count, a_is_attacking,
\* has_a_finished_their_turn and has_b_finished_their_turn of the snapshot it is
\* called on as they were.
C23_StructuralFieldsKept ==
    [][TransitionOnKeptSnapshot
        => StructuralFields(current_state') = StructuralFields(current_state)]_vars

\* C23 witness: run_round(RoundStart) has returned; the snapshot it stopped at is still
\* the RoundStart, its round_count is 1, and the copy archived by the transition made
\* on it has round_count 0.
C23_Witness ==
    /\ pc = "idle" /\ calls = 2 /\ fresh
    /\ outcome = [call |-> "run_round", raised |-> "none"]
    /\ current_state.type = "RoundStart"
    /\ current_state.round_count = 1
    /\ LET h == current_state.saved_states
       IN  Len(h) = 2 /\ h[2].type = "RoundStart" /\ h[2].round_count = 0

(***************************************************************************)
(* Start.initialize                                                        *)
(***************************************************************************)
RECURSIVE SumOverAdds(_, _, _)
\* The sum of one stat over the add-ons from the k-th on
SumOverAdds(adds, stat, k) ==
    IF k > Len(adds) THEN 0 ELSE adds[k][stat] + SumOverAdds(adds, stat, k + 1)

RECURSIVE EffectNamesOfAdds(_, _)
\* The names of the add-ons' effects, add-on after add-on from the k-th on
EffectNamesOfAdds(adds, k) ==
    IF k > Len(adds) THEN <<>>
    ELSE [j \in 1..Len(adds[k].effects) |-> adds[k].effects[j].name]
            \o EffectNamesOfAdds(adds, k + 1)

EffectNames(c) == [j \in 1..Len(c.effects) |-> c.effects[j].name]

MergedStats == {"armor", "shields", "ballistics", "chemical", "firepower", "velocity"}

\* combatant is main with the add-ons folded in.
IsMainPlusAdds(combatant, main, adds) ==
    /\ \A stat \in MergedStats : combatant[stat] = main[stat] + SumOverAdds(adds, stat, 1)
    /\ EffectNames(combatant) = EffectNames(main) \o EffectNamesOfAdds(adds, 1)

\* start_battle has built the Start snapshot and nothing has been done with it.
JustInitialized ==
    current_state.type = "Start" /\ current_state.saved_states = <<>> /\ pc # "idle"

\* C24 (Start.initialize): each of the six stats of combatant_a and combatant_b is the
\* main's value plus the sum over its add-ons, the effects are the main's followed by
\* each add-on's in order, the main and add-on records are the configured ones
\* unchanged, and no transition merges again (the effect lists keep their entries, and
\* the snapshot's main and add-on stats stay as configured).
C24_MainPlusAddOns ==
    /\ [](JustInitialized =>
            /\ IsMainPlusAdds(current_state.combatant_a, sim.main_a, sim.adds_a)
            /\ IsMainPlusAdds(current_state.combatant_b, sim.main_b, sim.adds_b)
            /\ current_state.main_a = sim.main_a /\ current_state.adds_a = sim.adds_a
            /\ current_state.main_b = sim.main_b /\ current_state.adds_b = sim.adds_b)
    /\ [][TransitionDue =>
            /\ EffectNames(current_state'.combatant_a) = EffectNames(current_state.combatant_a)
            /\ EffectNames(current_state'.combatant_b) = EffectNames(current_state.combatant_b)
            /\ current_state'.combatant_a.ballistics = current_state.combatant_a.ballistics
            /\ current_state'.combatant_b.ballistics = current_state.combatant_b.ballistics
            /\ current_state'.main_a = current_state.main_a
            /\ current_state'.main_b = current_state.main_b
            /\ \A k \in 1..Len(current_state.adds_b) : \A stat \in MergedStats :
                    current_state'.adds_b[k][stat] = current_state.adds_b[k][stat]
            /\ \A k \in 1..Len(current_state.adds_a) : \A stat \in MergedStats :
                    current_state'.adds_a[k][stat] = current_state.adds_a[k][stat]]_vars

\* C24 witness: a Start snapshot has been built for a side with an effect of its own
\* and two add-ons that carry effects and stats.
C24_Witness ==
    /\ JustInitialized
    /\ Len(sim.adds_b) = 2 /\ sim.main_b.effects # <<>>
    /\ Len(current_state.combatant_b.effects) = 3
    /\ current_state.combatant_b.armor = sim.main_b.armor + 2
    /\ current_state.combatant_b.firepower = sim.main_b.firepower + 2

\* A driver loop is about to call transition() and will keep the snapshot it returns.
TransitionKept == TransitionDue /\ ~TransitionOnKeptSnapshot

\* C25 (phase graph): a transition returns a snapshot of a permitted successor class
\* only (Start -> RoundStart -> VelocityRoll -> TurnStart -> FirepowerAttack ->
\* BallisticsAttack or TurnEnd, BallisticsAttack -> ChemicalAttack or TurnEnd,
\* ChemicalAttack -> TurnEnd -> TurnStart or RoundEnd -> RoundStart or End), so the
\* attacks of a turn come in the order Firepower, Ballistics, Chemical; and every
\* attack snapshot carries the att_type of its class.
C25_PhaseGraph ==
    /\ [][(TransitionKept /\ outcome'.raised = "none")
            => current_state'.type \in PermittedSuccessors(current_state.type)]_vars
    /\ [](current_state.att_type =
            (CASE current_state.type = "FirepowerAttack" -> "Firepower"
               [] current_state.type = "BallisticsAttack" -> "Ballistics"
               [] current_state.type = "ChemicalAttack" -> "Chemical"
               [] OTHER -> "None"))

\* C25 witness: a battle has ended in its second round or later after a turn that
\* went through the three attacks in order; its archive shows them.
C25_Witness ==
    /\ current_state.type = "End" /\ current_state.round_count >= 2
    /\ \E i \in 1..(Len(current_state.saved_states) - 4) :
            LET h == current_state.saved_states
            IN  /\ h[i].type = "TurnStart"
                /\ h[i + 1].type = "FirepowerAttack" /\ h[i + 1].att_type = "Firepower"
                /\ h[i + 2].type = "BallisticsAttack" /\ h[i + 2].att_type = "Ballistics"
                /\ h[i + 3].type = "ChemicalAttack" /\ h[i + 3].att_type = "Chemical"
                /\ h[i + 4].type = "TurnEnd"

\* The class of the attack that follows in the turn
NextAttackClass(type) ==
    IF type = "FirepowerAttack" THEN "BallisticsAttack" ELSE "ChemicalAttack"

\* A driver loop is about to call transition() on a snapshot of one of these classes,
\* the call returns and the snapshot it returns is kept.
Transits(classes) ==
    TransitionKept /\ current_state.type \in classes /\ outcome'.raised = "none"

\* C26 as stated (death short-circuit): after a FirepowerAttack or BallisticsAttack
\* transition the next phase is TurnEnd if and only if the defender is dead after the
\* attack, otherwise the next attack; a ChemicalAttack always goes to TurnEnd.
C26_DefenderDeathOnly ==
    [][/\ Transits({"FirepowerAttack", "BallisticsAttack"})
            => /\ (current_state'.type = "TurnEnd") = is_dead(Defender(current_state'))
               /\ current_state'.type \in {"TurnEnd", NextAttackClass(current_state.type)}
       /\ Transits({"ChemicalAttack"}) => current_state'.type = "TurnEnd"]_vars

\* C26 (death short-circuit, amended): after a FirepowerAttack or BallisticsAttack
\* transition the next phase is TurnEnd if and only if a combatant, defender or
\* attacker, is dead after the attack, otherwise the next attack; a ChemicalAttack
\* always goes to TurnEnd.
C26_DeathShortCircuit ==
    [][/\ Transits({"FirepowerAttack", "BallisticsAttack"})
            => /\ (current_state'.type = "TurnEnd")
                    = (is_dead(current_state'.combatant_a) \/ is_dead(current_state'.combatant_b))
               /\ current_state'.type \in {"TurnEnd", NextAttackClass(current_state.type)}
       /\ Transits({"ChemicalAttack"}) => current_state'.type = "TurnEnd"]_vars

\* C26 witness: a Firepower attack made by a side that was already dead (killed at
\* the start of the round) against a living defender has been followed by TurnEnd.
C26_Witness ==
    /\ current_state.type = "TurnEnd"
    /\ current_state.saved_states # <<>>
    /\ current_state.saved_states[Len(current_state.saved_states)].type = "FirepowerAttack"
    /\ is_dead(Attacker(current_state)) /\ ~is_dead(Defender(current_state))

\* C27 (TurnEnd): the transition marks the turn of the acting side as finished; it
\* returns a RoundEnd if a combatant is dead or both sides have finished their turn,
\* and otherwise a TurnStart with a_is_attacking flipped and the finished flag of the
\* side that just acted true (the other side's flag as it was).
C27_TurnEnd ==
    [][current_state.type = "TurnEnd" =>
        LET a_finished == current_state.a_is_attacking \/ current_state.has_a_finished_their_turn
            b_finished == ~current_state.a_is_attacking \/ current_state.has_b_finished_their_turn
            dead == is_dead(current_state'.combatant_a) \/ is_dead(current_state'.combatant_b)
        IN  /\ Transits({"TurnEnd"}) =>
                IF dead \/ (a_finished /\ b_finished)
                THEN current_state'.type = "RoundEnd"
                ELSE /\ current_state'.type = "TurnStart"
                     /\ current_state'.a_is_attacking = ~current_state.a_is_attacking
                     /\ current_state'.has_a_finished_their_turn = a_finished
                     /\ current_state'.has_b_finished_their_turn = b_finished
            /\ (TransitionOnKeptSnapshot /\ outcome'.raised = "none") =>
                /\ current_state'.type = "TurnEnd"
                /\ current_state'.has_a_finished_their_turn = a_finished
                /\ current_state'.has_b_finished_their_turn = b_finished]_vars

\* C27 witness: the side that won the velocity roll has had its turn with nobody
\* dead, and the TurnStart of the other side has been returned: side B acts, side A
\* alone is marked finished.
C27_Witness ==
    /\ current_state.type = "TurnStart"
    /\ ~current_state.a_is_attacking
    /\ current_state.has_a_finished_their_turn /\ ~current_state.has_b_finished_their_turn
    /\ current_state.saved_states[Len(current_state.saved_states)].type = "TurnEnd"
    /\ current_state.saved_states[Len(current_state.saved_states)].a_is_attacking
    /\ ~is_dead(current_state.combatant_a) /\ ~is_dead(current_state.combatant_b)

\* The entries of history h archived in round r whose class is one of classes
RoundEntries(h, r, classes) ==
    {i \in 1..Len(h) : h[i].round_count = r /\ h[i].type \in classes}

\* run_battle() was the first call made on the simulator; it is running or has ended.
BattleFromScratch ==
    calls = 1 /\ (pc = "run_battle" \/ outcome.call = "run_battle")

\* The TurnEnd of the side that had the first turn of the round
FirstTurnEnds ==
    /\ current_state.type = "TurnEnd"
    /\ IF current_state.a_is_attacking
       THEN ~current_state.has_b_finished_their_turn
       ELSE ~current_state.has_a_finished_their_turn

HasBells(c) ==
    /\ \E i \in DOMAIN c.effects : c.effects[i].name = "Round Bell"
    /\ \E i \in DOMAIN c.effects : c.effects[i].name = "Final Bell"

\* How often the effect of that name of combatant c has triggered
Heard(c, name) ==
    c.effects[CHOOSE i \in DOMAIN c.effects : c.effects[i].name = name].trigger_count

C30_RoundCount ==
    /\ [](current_state.type = "Start" => current_state.round_count = 0)
    /\ [][TransitionDue =>
            current_state'.round_count
                = current_state.round_count
                    + IF current_state.type = "RoundStart" THEN 1 ELSE 0]_vars
    /\ [](LET h == current_state.saved_states
          IN  /\ \A i \in 1..Len(h) :
                    /\ h[i].round_count <= current_state.round_count
                    /\ i < Len(h) => h[i].round_count <= h[i + 1].round_count
              /\ current_state.type = "End" =>
                    /\ current_state.round_count
                            = Cardinality({i \in 1..Len(h) : h[i].type = "RoundStart"})
                    /\ current_state.round_count >= 1)

\* C30 witness: a battle has ended in its third round or later; its history holds the
\* RoundStart snapshots archived with round_count 0, 1 and 2.
C30_Witness ==
    /\ current_state.type = "End" /\ current_state.round_count >= 3
    /\ \A r \in 0..2 :
            \E i \in 1..Len(current_state.saved_states) :
                /\ current_state.saved_states[i].type = "RoundStart"
                /\ current_state.saved_states[i].round_count = r

(***************************************************************************)
(* SpecPhase: the transitions of one turn, each made on its own with the   *)
(* values it draws taken from sample sets. The combatants carry recorders, *)
(* so what every hook call saw is in the state.                            *)
(***************************************************************************)
Watcher(name, firepower, velocity) ==
    [create_combatant(3, 2, 2, 2, firepower, velocity, name) EXCEPT
        !.effects = <<Recorder("Recorder", "None"),
                      Recorder("Attack Recorder", "FirepowerAttack")>>]

\* A watcher without shields
Bare == [Watcher("Bare", 2, 6) EXCEPT !.shields = 0, !.original_shields = 0]

\* A watcher whose effects overwrite payload fields after its recorders have run
Meddler ==
    [Watcher("Meddler", 2, 5) EXCEPT
        !.effects = @ \o <<NewEffect("Jinx"), NewEffect("Usurper")>>]

PhaseScenarios ==
    {[a |-> Watcher("Left", 2, 5), b |-> Watcher("Right", 2, 6), terrain |-> t] :
        t \in {NoTerrain, NewTerrain("Malvinas"), NewTerrain("Lake Tampua")}}
    \cup {[a |-> [Watcher("Aimed", 2, 4) EXCEPT
                    !.attack_hit_chance_mod = ("Firepower" :> 2)],
           b |-> [Watcher("Dodgy", 2, 7) EXCEPT
                    !.defense_hit_chance_mod = ("Firepower" :> 5) @@ ("Ballistics" :> 0 - 3)],
           terrain |-> NoTerrain]}
    \cup {[a |-> Watcher("Weak", 1, 5), b |-> Bare, terrain |-> NoTerrain]}
    \cup {[a |-> Meddler, b |-> Watcher("Right", 2, 6), terrain |-> NoTerrain]}

InitPhase ==
    /\ sim = NoSim
    /\ settings \in {"PROD", "DEBUG"}
    /\ rng = [seed |-> 0, pos |-> 0]
    /\ pc = "idle"
    /\ until = "RoundEnd"
    /\ calls = 0
    /\ outcome = NoOutcome
    /\ clock = 0
    /\ run = 1
    /\ prev = NoPrev
    /\ archive_on = TRUE
    /\ fresh = FALSE
    /\ multi = NoMulti
    /\ \E sc \in PhaseScenarios :
          current_state =
              [Construct("VelocityRoll", Initialize(sc.a, sc.b, <<>>, <<>>, sc.terrain, 0))
                  EXCEPT !.round_count = 1]
    /\ victim = NewCombatant("None", 0, 0, 0, 0, 0, 0)
    /\ last = NoCall
    /\ step = NoStep

\* transition() called directly on current_state with the drawn values rolls; the
\* snapshot it returns becomes current_state.
Stepped(r, rolls) ==
    /\ current_state' = IF r.raised # "none" THEN r.self ELSE r.next
    /\ step' = [called |-> TRUE, rolls |-> rolls, before |-> current_state,
                raised |-> r.raised, draws |-> r.draws]
    /\ UNCHANGED <<sim, settings, rng, pc, until, calls, outcome, clock, run, prev,
                   archive_on, fresh, multi, victim, last>>

VelocityRollSamples == {VelocityRollMin, VelocityRollMax}

\* Rolls of rng.randint(0, 1000) around the roll t from which the attack hits
HitSamples(t) ==
    ({HitRollMin, HitRollMax} \cup {t - 21, t - 20, t - 1, t}) \cap (HitRollMin..HitRollMax)

PhaseVelocityRoll ==
    /\ current_state.type = "VelocityRoll" /\ step.raised = "none"
    /\ \E roll_a \in VelocityRollSamples, roll_b \in VelocityRollSamples :
          \E r \in {VelocityRoll_transition(current_state, roll_a, roll_b)} :
             Stepped(r, <<roll_a, roll_b>>)

PhaseTurnStart ==
    /\ current_state.type = "TurnStart" /\ step.raised = "none"
    /\ \E r \in {TurnStart_transition(current_state)} : Stepped(r, <<>>)

PhaseAttack ==
    /\ current_state.type \in AttackStateTypes /\ step.raised = "none"
    /\ \E ready \in {apply_effects(current_state, Signal("PRE_ATTACK", NoData)).st} :
          \E base_hit \in HitSamples(HitThreshold(ready)) :
             \E r \in {Attack_transition(current_state, base_hit)} :
                Stepped(r, <<base_hit>>)

NextPhase == PhaseVelocityRoll \/ PhaseTurnStart \/ PhaseAttack

SpecPhase == InitPhase /\ [][NextPhase]_vars

\* The list kept by the recorder of that name of combatant c
LogOf(c, name) ==
    c.effects[CHOOSE i \in DOMAIN c.effects : c.effects[i].name = name].log

\* What the recorder of that name on side A (from_a) or B was called with during the
\* last transition
StepLog(from_a, name) ==
    LET now == LogOf(Own(current_state, from_a), name)
        before == LogOf(Own(step.before, from_a), name)
    IN  SubSeq(now, Len(before) + 1, Len(now))

\* The signals side A's recorder heard during the last transition, in order
StepSignals == [i \in 1..Len(StepLog(TRUE, "Recorder")) |-> StepLog(TRUE, "Recorder")[i].type]

\* The last transition was an attack that returned.
AttackMade ==
    step.called /\ step.before.type \in AttackStateTypes /\ step.raised = "none"

\* The attack of the last transition went on to its damage.
AttackHit == \E i \in 1..Len(StepSignals) : StepSignals[i] = "POST_DMG_CALC"

\* No hook of the snapshot writes to the payload of POST_HIT_ROLL.
HitPayloadUntouched(st) ==
    /\ ~(st.terrain.name = "Malvinas" /\ st.att_type = "Ballistics")
    /\ \A i \in DOMAIN st.combatant_a.effects : st.combatant_a.effects[i].name # "Jinx"
    /\ \A i \in DOMAIN st.combatant_b.effects : st.combatant_b.effects[i].name # "Jinx"

\* floor(d / 2), written out for either sign
FloorHalf(d) == IF d >= 0 THEN d \div 2 ELSE 0 - ((1 - d) \div 2)

\* C31 (hit roll): when no hook writes to the payload, an attack with roll r in
\* [0, 1000] hits exactly when r + att_mod - def_mod >= 500 - hit_chance, where
\* hit_chance is floor((attacker.velocity - defender.velocity) / 2), also for a
\* negative difference, and att_mod and def_mod are the attacker's
\* attack_hit_chance_mod and the defender's defense_hit_chance_mod for the attack
\* type, 0 when absent.
C31_HitRoll ==
    (AttackMade /\ HitPayloadUntouched(step.before)) =>
        LET att == Attacker(step.before)
            def == Defender(step.before)
            type == step.before.att_type
            att_mod == IF type \in DOMAIN att.attack_hit_chance_mod
                       THEN att.attack_hit_chance_mod[type] ELSE 0
            def_mod == IF type \in DOMAIN def.defense_hit_chance_mod
                       THEN def.defense_hit_chance_mod[type] ELSE 0
            r == step.rolls[1]
        IN  /\ r \in 0..1000
            /\ AttackHit = (r + att_mod - def_mod >= 500 - FloorHalf(att.velocity - def.velocity))

\* C31 witness: the attacker is slower by 1, so hit_chance is -1; the roll 500 has
\* missed.
C31_Witness ==
    /\ AttackMade /\ HitPayloadUntouched(step.before)
    /\ Attacker(step.before).velocity - Defender(step.before).velocity = 0 - 1
    /\ Attacker(step.before).attack_hit_chance_mod = EmptyDict
    /\ Defender(step.before).defense_hit_chance_mod = EmptyDict
    /\ step.rolls = <<500>>
    /\ ~AttackHit

\* The last transition was made and returned.
StepMade == step.called /\ step.raised = "none"

\* The signal types on which the terrain of snapshot st acts in phase st.type
TerrainSignals(st) ==
    CASE st.terrain.name = "Malvinas" /\ st.type = "BallisticsAttack" ->
            {"POST_HIT_ROLL", "POST_DMG_CALC"}
      [] st.terrain.name = "Lake Tampua" /\ st.type \in AttackStateTypes -> {"POST_HIT_ROLL"}
      [] OTHER -> {}

\* C32 (hook dispatch order): for every signal of a transition the terrain hook is
\* applied first, then side A's effects in list order, then side B's, each called
\* with its own side; an effect whose condition holds runs once per signal and its
\* trigger_count goes up by one; an effect with a target_state never runs on a
\* snapshot of another class.
C32_DispatchOrder ==
    StepMade =>
        LET a == StepLog(TRUE, "Recorder")
            b == StepLog(FALSE, "Recorder")
            fa == StepLog(TRUE, "Attack Recorder")
            heard_a == Len(LogOf(step.before.combatant_a, "Recorder"))
            heard_b == Len(LogOf(step.before.combatant_b, "Recorder"))
        IN  /\ Len(a) = Len(b)
            /\ \A i \in 1..Len(a) :
                    /\ a[i].type = b[i].type /\ a[i].phase = step.before.type
                    /\ a[i].from_a /\ ~b[i].from_a
                    \* side A's recorder runs before side B's has heard the signal
                    /\ a[i].own_recorded = heard_a + i - 1
                    /\ a[i].other_recorded = heard_b + i - 1
                    /\ b[i].other_recorded = heard_a + i
                    \* the terrain has acted before side A's first effect runs
                    /\ a[i].type \in TerrainSignals(step.before) => a[i].terrain_triggered
            \* the second effect of side A's list runs after the first
            /\ \A i \in 1..Len(fa) :
                    /\ fa[i].phase = "FirepowerAttack"
                    /\ fa[i].own_recorded
                            = heard_a + IF step.before.type = "FirepowerAttack" THEN i ELSE 0
            /\ Len(fa) = IF step.before.type = "FirepowerAttack" THEN Len(a) ELSE 0
            /\ \A from_a \in BOOLEAN :
                    LET c == Own(current_state, from_a)
                    IN  \A i \in DOMAIN c.effects :
                            c.effects[i].name \in RecorderNames
                                => c.effects[i].trigger_count = Len(c.effects[i].log)

\* C32 witness: a BallisticsAttack at Malvinas has hit: the terrain acted for the
\* first time on its POST_HIT_ROLL, and side A's recorder, called on that signal, saw
\* the roll the terrain had raised by 20 already.
C32_Witness ==
    /\ StepMade /\ step.before.type = "BallisticsAttack"
    /\ step.before.terrain = NewTerrain("Malvinas")
    /\ AttackHit
    /\ \E i \in 1..Len(StepLog(TRUE, "Recorder")) :
            LET e == StepLog(TRUE, "Recorder")[i]
            IN  /\ e.type = "POST_HIT_ROLL" /\ e.terrain_triggered
                /\ e.data.base_roll = step.rolls[1] + 20
    /\ Len(StepLog(TRUE, "Attack Recorder")) = 0

\* The armor and shields of both sides of snapshot st
AllPools(st) ==
    <<st.combatant_a.armor, st.combatant_a.shields, st.combatant_b.armor, st.combatant_b.shields>>

\* does_hit of the POST_HIT_ROLL payload of the last transition as the last hook of
\* the signal, side B's recorder, saw it
HitReadBack ==
    LET b == StepLog(FALSE, "Recorder")
    IN  b[CHOOSE i \in 1..Len(b) : b[i].type = "POST_HIT_ROLL"].data.does_hit

\* C33 as stated (signals of an attack): an attack phase emits PRE_ATTACK,
\* POST_HIT_ROLL and POST_ATTACK once each, in that order, and then, only if the
\* attack hits, POST_DMG_CALC and POST_DMG_APPLICATION once each; on a miss no pool
\* of either side changes.
C33_NoPoolChangesOnMiss ==
    AttackMade =>
        /\ StepSignals = <<"PRE_ATTACK", "POST_HIT_ROLL", "POST_ATTACK">>
                            \o IF HitReadBack
                               THEN <<"POST_DMG_CALC", "POST_DMG_APPLICATION">> ELSE <<>>
        /\ ~HitReadBack => AllPools(current_state) = AllPools(step.before)

\* C33 (signals of an attack): an attack phase emits PRE_ATTACK, POST_HIT_ROLL and
\* POST_ATTACK once each, in that order, and then, only if the attack hits,
\* POST_DMG_CALC and POST_DMG_APPLICATION once each; on a miss the defender's pools
\* stay as they were, and so do the attacker's unless a hook changed them (Lake
\* Tampua, on a roll below 100).
C33_SignalOrder ==
    AttackMade =>
        /\ StepSignals = <<"PRE_ATTACK", "POST_HIT_ROLL", "POST_ATTACK">>
                            \o IF HitReadBack
                               THEN <<"POST_DMG_CALC", "POST_DMG_APPLICATION">> ELSE <<>>
        /\ ~HitReadBack =>
                /\ Defender(current_state).armor = Defender(step.before).armor
                /\ Defender(current_state).shields = Defender(step.before).shields
                /\ (step.before.terrain.name # "Lake Tampua" \/ step.rolls[1] >= 100)
                        => AllPools(current_state) = AllPools(step.before)

\* C33 witness: at Lake Tampua an attack with roll 0 has missed: three signals, no
\* damage signal, and the attacker has lost its shields to the lake.
C33_Witness ==
    /\ AttackMade /\ ~HitReadBack
    /\ step.before.terrain.name = "Lake Tampua" /\ step.rolls = <<0>>
    /\ Len(StepSignals) = 3
    /\ Attacker(step.before).shields > 0 /\ Attacker(current_state).shields = 0

\* What side B's recorder, the last hook of every signal, saw on the signal of that
\* type during the last transition
LastSeen(type) ==
    LET b == StepLog(FALSE, "Recorder")
    IN  b[CHOOSE i \in 1..Len(b) : b[i].type = type]

\* What side A's recorder, the first effect of every signal, saw
FirstSeen(type) ==
    LET a == StepLog(TRUE, "Recorder")
    IN  a[CHOOSE i \in 1..Len(a) : a[i].type = type]

\* The defender's <<armor, shields>> among the pools of a recorder entry
DefenderPools(entry) ==
    IF step.before.a_is_attacking
    THEN <<entry.pools[3], entry.pools[4]>> ELSE <<entry.pools[1], entry.pools[2]>>

\* C34 (payload read-back): the state machine uses the payload as the hooks of the
\* signal left it: the TurnStart after a velocity roll has the a_is_attacking of the
\* POST_VELOCITY_ROLL payload; an attack goes on to its damage exactly when does_hit
\* of the POST_HIT_ROLL payload is true; apply_damage is called with the damage of
\* the POST_DMG_CALC payload; and the POST_DMG_APPLICATION payload holds the
\* defender's armor and shields as they were before the damage, and that damage.
C34_PayloadReadBack ==
    /\ (StepMade /\ step.before.type = "VelocityRoll") =>
            /\ current_state.type = "TurnStart"
            /\ current_state.a_is_attacking = LastSeen("POST_VELOCITY_ROLL").data.a_is_attacking
    /\ AttackMade =>
            /\ AttackHit = LastSeen("POST_HIT_ROLL").data.does_hit
            /\ AttackHit =>
                    LET calc == LastSeen("POST_DMG_CALC")
                        done == FirstSeen("POST_DMG_APPLICATION")
                        def == [Defender(step.before) EXCEPT
                                    !.armor = DefenderPools(calc)[1],
                                    !.shields = DefenderPools(calc)[2]]
                        hurt == apply_damage(def, calc.data.damage, step.before.att_type).c
                    IN  /\ DefenderPools(done) = <<hurt.armor, hurt.shields>>
                        /\ done.data.damage = calc.data.damage
                        /\ done.data.pre_damage_armor = DefenderPools(calc)[1]
                        /\ done.data.pre_damage_shields = DefenderPools(calc)[2]
                        /\ done.data.attacker_is_a = step.before.a_is_attacking

\* C34 witness: an effect of side A has set does_hit of an attack with roll 0, and the
\* attack went on to its damage; the defender lost shields.
C34_Witness ==
    /\ AttackMade /\ step.rolls = <<0>>
    /\ ~FirstSeen("POST_HIT_ROLL").data.does_hit
    /\ LastSeen("POST_HIT_ROLL").data.does_hit
    /\ AttackHit
    /\ FirstSeen("POST_DMG_APPLICATION").data.pre_damage_shields
            > Defender(current_state).shields

\* The last transition was a BallisticsAttack at Malvinas that returned, with no other
\* hook writing to the payload of POST_HIT_ROLL.
MalvinasAttackMade ==
    /\ AttackMade /\ step.before.type = "BallisticsAttack"
    /\ step.before.terrain.name = "Malvinas"
    /\ \A i \in DOMAIN step.before.combatant_a.effects :
            step.before.combatant_a.effects[i].name # "Jinx"

\* C35 (perturbed roll): when a hook changes the roll in the POST_HIT_ROLL payload, the
\* attack hits exactly when roll' + att_mod - def_mod >= 500 - hit_chance holds for
\* the roll' the hooks left.
C35_PerturbedRollDecides ==
    MalvinasAttackMade =>
        LET seen == LastSeen("POST_HIT_ROLL").data
        IN  AttackHit = (seen.base_roll + seen.att_mod - seen.def_mod >= 500 - seen.hit_chance)

\* C35 witness: at Malvinas a Ballistics roll one short of the threshold was raised
\* by 20 in the payload, and the attack missed all the same.
C35_Witness ==
    /\ MalvinasAttackMade
    /\ LET seen == LastSeen("POST_HIT_ROLL").data
       IN  /\ seen.base_roll = step.rolls[1] + 20
           /\ step.rolls[1] + seen.att_mod - seen.def_mod = 500 - seen.hit_chance - 1
           /\ ~seen.does_hit
    /\ ~AttackHit
    /\ AllPools(current_state) = AllPools(step.before)

\* C36 (debug assertion): the assertion at the end of process_attack never fails, and
\* in either mode an attack that hits with a non-zero stat of the attacker for the
\* attack type takes something off the defender's pools.
C36_DebugAssertionHolds ==
    /\ step.raised # "AssertionError"
    /\ (AttackMade /\ AttackHit
            /\ get_damage(Attacker(step.before), step.before.att_type) # 0)
        => Defender(current_state).armor + Defender(current_state).shields
                < Defender(step.before).armor + Defender(step.before).shields

\* C36 witness: in DEBUG a FirepowerAttack with firepower 1 on a defender without
\* shields has hit; the damage was halved to 0, the pools are as they were, and
\* transition() raised AssertionError.
C36_Witness ==
    /\ settings = "DEBUG"
    /\ step.called /\ step.before.type = "FirepowerAttack"
    /\ step.raised = "AssertionError"
    /\ Attacker(step.before).firepower = 1
    /\ Defender(step.before).shields = 0 /\ Defender(step.before).armor > 0
    /\ AttackHit
    /\ AllPools(current_state) = AllPools(step.before)

\* How many values a transition of a snapshot of that class draws
DrawsOf(type) ==
    CASE type = "VelocityRoll" -> 2
      [] type \in AttackStateTypes -> 1
      [] OTHER -> 0

\* C37 (draws and seed): a transition that returns has drawn 2 values from the
\* generator when it was called on a VelocityRoll, 1 when called on an attack
\* snapshot, hit or miss, and none otherwise; every snapshot of a battle, archived or
\* current, has the random_seed the generator of the battle was created from.
C37_DrawsAndSeed ==
    /\ [][(TransitionDue /\ outcome'.raised = "none")
            => /\ rng'.seed = rng.seed
               /\ rng'.pos = rng.pos + DrawsOf(current_state.type)]_vars
    /\ [](current_state.type # "None" =>
            /\ current_state.random_seed = rng.seed
            /\ \A i \in 1..Len(current_state.saved_states) :
                    current_state.saved_states[i].random_seed = rng.seed)

\* C37 witness: a battle seeded with 3 has ended in its second round or later after
\* more attacks than rounds; the generator stands after 2 draws for every velocity
\* roll and 1 for every attack in the history.
C37_Witness ==
    /\ BattleRunFromScratch /\ current_state.type = "End"
    /\ current_state.random_seed = 3 /\ rng.seed = 3
    /\ current_state.round_count >= 2
    /\ LET h == current_state.saved_states
           rolls == Cardinality({i \in 1..Len(h) : h[i].type = "VelocityRoll"})
           attacks == Cardinality({i \in 1..Len(h) : h[i].type \in AttackStateTypes})
       IN  /\ attacks > rolls
           /\ rng.pos = 2 * rolls + attacks

\* Both battles have ended: the one run_round(until) stepped into and run_battle()
\* finished (prev.state), and the one of the simulator built alike that run_battle()
\* ran alone.
SteppedAndUnsteppedEnded ==
    /\ SecondRunEnded(6)
    /\ outcome.raised = "none" /\ prev.outcome.raised = "none"
    /\ current_state.type = "End" /\ prev.state.type = "End"

\* C38 (stepping does not perturb): start_battle(); run_round(until=T); run_battle()
\* ends with the armor and shields of both sides and the round_count that
\* start_battle(); run_battle() ends with for the same seed and inputs.
C38_SteppingDoesNotPerturb ==
    SteppedAndUnsteppedEnded
        => /\ FinalPools(prev.state) = FinalPools(current_state)
           /\ prev.state.round_count = current_state.round_count

\* C38 witness: without a terrain, the stepped battle has ended a round later than the
\* unstepped one, and with other pools.
C38_Witness ==
    /\ SteppedAndUnsteppedEnded
    /\ sim.terrain = NoTerrain
    /\ prev.state.round_count = current_state.round_count + 1
    /\ FinalPools(prev.state) # FinalPools(current_state)

\* The second of two run_round() calls on one simulator has returned; the first had
\* started the battle and returned at the RoundEnd of round 1 with nobody dead.
SecondRoundReturned ==
    /\ run = 7 /\ pc = "idle"
    /\ outcome = [call |-> "run_round", raised |-> "none"]
    /\ prev.state.round_count = 1

\* C39 (one round per call): when run_round() has returned at a RoundEnd with both
\* combatants alive, the next run_round() plays the following round: after the second
\* call the snapshot is in round 2, with the phases of that round archived.
C39_OneRoundPerCall ==
    SecondRoundReturned
        => /\ current_state.round_count = 2
           /\ Len(current_state.saved_states) > Len(prev.state.saved_states) + 1

\* C39 witness: the second run_round() has returned; the snapshot is the RoundEnd of
\* round 1 the first call left, with the same pools, archived once more.
C39_Witness ==
    /\ SecondRoundReturned
    /\ current_state.type = "RoundEnd" /\ current_state.round_count = 1
    /\ FinalPools(current_state) = FinalPools(prev.state)
    /\ Len(current_state.saved_states) = Len(prev.state.saved_states) + 1

\* C40 (run_round on a finished battle): a run_round() call made while current_state
\* is an End snapshot starts a new battle (the snapshot becomes a Start with an empty
\* archive), and run_round does not end with the exception of a transition() call on
\* an End snapshot.
C40_RunRoundRestarts ==
    [][/\ (pc = "idle" /\ current_state.type = "End" /\ pc' = "run_round")
            => /\ current_state'.type = "Start"
               /\ current_state'.saved_states = <<>>
       /\ (pc = "run_round" /\ current_state.type = "End")
            => outcome'.raised # "Exception"]_vars

\* C40 witness: in PROD, run_battle() and then run_round() have been called on one
\* simulator; run_round has raised the exception of End.transition and the snapshot is
\* the End of the finished battle, its rounds still in the archive.
C40_Witness ==
    /\ settings = "PROD" /\ run = 1 /\ calls = 2 /\ pc = "idle"
    /\ outcome = [call |-> "run_round", raised |-> "Exception"]
    /\ current_state.type = "End" /\ current_state.round_count >= 1
    /\ \E i \in 1..Len(current_state.saved_states) :
            current_state.saved_states[i].type = "RoundEnd"


====
